---- MODULE Spec2Model ----
(***************************************************************************)
(* Model of the nx-proxy node: the slot/peer model with its byte           *)
(* accounting, the rate-limited password lookup, the SOCKS5 handshake and  *)
(* the service hub.  Each part has its own specification over the shared   *)
(* variables:                                                              *)
(*   Spec      - one slot, its peers, their connections, the per-peer      *)
(*               redistributor goroutine, a protocol handler and Deltas()  *)
(*   SpecConn  - two handlers acquiring connections on a capped peer       *)
(*   SpecAuth  - one slot with a rate limiter: SetPeers, LookupWithPassword*)
(*               Connection, the wall clock and the limiter's cleanup      *)
(*   SpecSlot  - the slot driven by one sequential caller, two peers       *)
(*   SpecPeers - SetPeers against batches with invalid and repeated entries*)
(*   SpecSocks - one SOCKS5 connection served by serveConn / cmdConnect    *)
(*   SpecHub   - ServiceHub.SetServices / CloseSlots over bind keys        *)
(*   SpecHubErr- SetServices with invalid entries, ServiceHub.SlotInfo     *)
(*   SpecHubDeltas - the hub with slot traffic and ServiceHub.Deltas       *)
(*   SpecBand  - RedistributePeerBandwidth over the connections of a peer  *)
(*   SpecUpdate- SetServices updating a slot in place, with its peers       *)
(*   SpecFramed- SetPeers re-importing a peer with another framed ip       *)
(*   SpecHttp  - one HTTP proxy request served by ServeHTTP                *)
(*   SpecTunnel- HTTP CONNECT requests with bytes pipelined after them     *)
(*   SpecBridge- the caller and the two goroutines of ProxyBridge          *)
(*   SpecSplice- ProxyBridge with both directions inside SpliceConn        *)
(*   SpecLookAlike - rejected credentials as SOCKS5 and HTTP clients see   *)
(*               them                                                      *)
(*   SpecToken - ServerToken.String and ParseServerToken                   *)
(*   SpecLimiter - the rate limiter's entries, clock and cleanup timer     *)
(*   SpecDns   - ServiceHub.SetDns, the peers' dialers and their dials     *)
(*   SpecDaemon- main(): configuration pulls, status pushes, the exit      *)
(*   SpecRelease - PeerConnections acquired and released by the handlers   *)
(* SpecConnFair, SpecSpliceFair and SpecLimiterFair add the fairness of    *)
(* the goroutines and timers to SpecConn, SpecSplice and SpecLimiter.      *)
(***************************************************************************)
EXTENDS Integers, Sequences, FiniteSets, TLC

\* ------------------------------------------------------------------ bounds
\* peer objects (nxproxy.Peer values) ever allocated by SetPeers
MaxObjs == 1
\* the same in SpecSlot, where peers are dropped and created again
SlotObjs == 2
\* PeerConnection values ever allocated by Peer.Connection
MaxConns == 2
\* AccountRx/AccountTx calls with a positive delta (one byte each)
MaxBytes == 2
\* concurrently running protocol handler goroutines
NumHandlers == 2
\* entries of one SetPeers batch
MaxBatch == 3
\* RateLimiterOptions.Quota of the slot's limiter (DefaultRatelimiter: 50)
RlQuota == 2
\* RateLimiterOptions.Window of the slot's limiter, in minutes (DefaultRatelimiter: 5)
RlWindow == 1
\* last minute of the wall clock
MaxTime == 3
\* rate-limited calls counted below zero by one counter before it is refilled
MaxOver == 2
\* delay of the limiter's cleanup timer, in minutes: time.AfterFunc(time.Minute, ...)
CleanupDelay == 1

\* ------------------------------------------------------------- value sets
\* uuid.Nil; also the nil *Peer of a map miss
Nil == 0
PeerIDs == {1, 2}
Users == {"u1", "u2"}
Passwords == {"p1", "p2"}
Handlers == 1..NumHandlers
\* client addresses, the limiter's keys "pw:" + ip
IPs == {"ip1", "ip2"}
\* PeerOptions.PasswordAuth == nil
NoAuth == <<>>

VARIABLES
    peers,        \* Seq of Peer: [opts, DeltaRx, DeltaTx, connMap, refreshActive]
    refresh,      \* Seq of the peer's refresh() goroutine: [pc, conns, lastNconn]
    conns,        \* Seq of PeerConnection: [peer, deltaRx, deltaTx, cancelled]
    peerMap,      \* Slot.peerMap: PeerIDs -> index into peers, Nil when absent
    userNameMap,  \* Slot.userNameMap: Users -> index into peers, Nil when absent
    oldDeltas,    \* Slot.oldDeltas: Seq of PeerDelta [ID, Rx, Tx]
    rl,           \* Slot.Rl: [present, entries: IPs -> RlCounter, cleanupScheduled, cleanupAt]
    now,          \* the wall clock, in minutes
    hs,           \* handler goroutines: [pc, peer, conn, late]
    acc,          \* history: bytes accounted per peer ID, [rx, tx]
    rep,          \* history: bytes returned by Slot.Deltas() per peer ID, [rx, tx]
    ret,          \* what the last step returned to its caller, NoRet when nothing of interest
    sock,         \* one SOCKS5 client connection in serveConn: [pc, log, peer, conn]
    hub,          \* ServiceHub: [svcs, bindMap, errSlots, oldDeltas]
    bw,           \* a peer under bandwidth control: [Bandwidth, conns, elapsed, pass, last]
    web,          \* one HTTP proxy request in ServeHTTP: [pc, req, status, header, log, peer, conn]
    bridge,       \* one call of ProxyBridge: [main, task, doneCh, closed, wg, ctxDone, cancelled, err, panicked, splice]
    daemon        \* the node's main(): [dns, dialers, dial, queue, fresh, status, main, doneCh, drained, pushed]

slotVars == <<peers, refresh, conns, peerMap, userNameMap, oldDeltas>>
rlVars == <<rl, now>>
vars == <<peers, refresh, conns, peerMap, userNameMap, oldDeltas, rl, now, hs, acc, rep, ret,
          sock, hub, bw, web, bridge, daemon>>

\* ---------------------------------------------------------------- helpers
\* the two copy directions of a bridge
Directions == {"rx", "tx"}

\* no call of ProxyBridge is under way
NoBridge == [main |-> "idle", task |-> [d \in Directions |-> [pc |-> "none", val |-> "nil"]],
             doneCh |-> <<>>, closed |-> FALSE, wg |-> 0, ctxDone |-> FALSE,
             cancelled |-> {}, err |-> "nil", panicked |-> FALSE,
             splice |-> [d \in Directions |->
                            [bandwidth |-> 0, read |-> 0, rerr |-> "nil", copied |-> 0,
                             src |-> 0, acct |-> 0, out |-> 0]]]

\* main() has not started: no resolver in hub.dns, no peer with a dialer, no
\* dial made, an empty deltasQueue, the status task between two pushes, no
\* exit signal, nothing drained from the hub and nothing posted
NoDaemon == [dns |-> "<nil>", dialers |-> <<>>, dial |-> <<>>,
             queue |-> <<>>, fresh |-> <<>>, status |-> "select", main |-> "run",
             doneCh |-> FALSE, drained |-> <<>>, pushed |-> <<>>]

RECURSIVE SumOver(_, _, _)
\* sum of conns[c].<field> over a set of connection indexes
SumOver(cs, S, field) ==
    IF S = {} THEN 0
    ELSE LET c == CHOOSE x \in S : TRUE
         IN  cs[c][field] + SumOver(cs, S \ {c}, field)

Max(a, b) == IF a > b THEN a ELSE b

Min(a, b) == IF a < b THEN a ELSE b

NoRet == [op |-> "none"]

\* ------------------------------------------------------------ PeerOptions
PeerOpt(id, auth, mc, dis) ==
    [ID |-> id, PasswordAuth |-> auth, MaxConnections |-> mc, FramedIP |-> "",
     Disabled |-> dis]

\* PeerOptions with a framed ip
PeerOptFramed(id, auth, mc, dis, framedIP) ==
    [PeerOpt(id, auth, mc, dis) EXCEPT !.FramedIP = framedIP]

\* no address: a nil net.IP, a nil net.Addr
NoAddr == "<nil>"

\* the addresses net.InterfaceAddrs reports on the host of the model
AssignedAddrs == {"127.0.0.1", "192.0.2.1", "192.0.2.2"}

\* ParseFramedIP: the ip, or none (with an error that SetPeers only logs)
\* when the string is no ip literal or the ip is not assigned to the host
ParseFramedIP(addr) == IF addr \in AssignedAddrs THEN addr ELSE NoAddr

\* TcpDialAddr: the local address of the dialer, none for no ip or a loopback
TcpDialAddr(addr) == IF addr # NoAddr /\ addr # "127.0.0.1" THEN addr ELSE NoAddr

UserPassword(user, password) == <<user, password>>
AuthUser(auth) == auth[1]
AuthPassword(auth) == auth[2]

\* CmpCredentials comparing the user names only
CmpUserOnly(opts, other) ==
    /\ opts.ID = other.ID
    /\ opts.PasswordAuth # NoAuth /\ other.PasswordAuth # NoAuth
    /\ AuthUser(opts.PasswordAuth) = AuthUser(other.PasswordAuth)

\* PeerOptions.CmpCredentials: same ID, both PasswordAuth set, same user and password
CmpCredentials(opts, other) ==
    IF opts.ID # other.ID THEN FALSE
    ELSE IF opts.PasswordAuth # NoAuth /\ other.PasswordAuth # NoAuth
         THEN /\ AuthUser(opts.PasswordAuth) = AuthUser(other.PasswordAuth)
              /\ AuthPassword(opts.PasswordAuth) = AuthPassword(other.PasswordAuth)
         ELSE FALSE

\* ------------------------------------------------------------------- Peer
\* a Peer as SetPeers constructs it
NewPeer(entry) ==
    [opts |-> entry, LocalAddr |-> TcpDialAddr(ParseFramedIP(entry.FramedIP)),
     DeltaRx |-> 0, DeltaTx |-> 0, connMap |-> {}, refreshActive |-> FALSE]

\* the refresh() goroutine of a peer: not running
RefreshOff == [pc |-> "off", conns |-> {}, lastNconn |-> 0]

\* Peer.Connection, the cap check: true when the acquisition is refused
TooManyConnections(p) ==
    p.opts.MaxConnections > 0 /\ Cardinality(p.connMap) > p.opts.MaxConnections

\* PeerConnection as Peer.Connection constructs it
NewConn(o) == [peer |-> o, deltaRx |-> 0, deltaTx |-> 0, cancelled |-> FALSE]

\* Peer.CloseConnections on peer o of state st (fields peers, conns):
\* every connection of connMap is closed, its counters are read (Load, not
\* Swap) into the peer's, and it is deleted from the map
CloseConnections(st, o) ==
    LET p == st.peers[o]
    IN  [st EXCEPT
           !.conns = [c \in DOMAIN st.conns |->
                        IF c \in p.connMap
                        THEN [st.conns[c] EXCEPT !.cancelled = TRUE]
                        ELSE st.conns[c]],
           !.peers[o].DeltaRx = p.DeltaRx + SumOver(st.conns, p.connMap, "deltaRx"),
           !.peers[o].DeltaTx = p.DeltaTx + SumOver(st.conns, p.connMap, "deltaTx"),
           !.peers[o].connMap = {}]

\* Peer.Delta followed by the append of storePeerDelta: both counters are
\* swapped to zero and the delta is kept only when one of them is positive
StorePeerDelta(st, o) ==
    LET p == st.peers[o]
    IN  [st EXCEPT
           !.peers[o].DeltaRx = 0,
           !.peers[o].DeltaTx = 0,
           !.oldDeltas = IF p.DeltaRx > 0 \/ p.DeltaTx > 0
                         THEN Append(st.oldDeltas,
                                     [ID |-> p.opts.ID, Rx |-> p.DeltaRx, Tx |-> p.DeltaTx])
                         ELSE st.oldDeltas]

\* ------------------------------------------------------------ Slot.SetPeers
\* peerOptsValid without the user name check
PeerOptsValidAnyUser(ids, users, entry) ==
    IF entry.ID = Nil \/ entry.ID \in ids THEN [ok |-> FALSE, ids |-> ids, users |-> users]
    ELSE [ok |-> entry.PasswordAuth # NoAuth, ids |-> ids \cup {entry.ID}, users |-> users]

\* peerOptsValid with its two sets: [ok, ids, users] after looking at entry.
\* The ID is recorded before PasswordAuth is looked at, the user name only
\* when the ID and PasswordAuth checks passed.
PeerOptsValid(ids, users, entry) ==
    IF entry.ID = Nil THEN [ok |-> FALSE, ids |-> ids, users |-> users]
    ELSE IF entry.ID \in ids THEN [ok |-> FALSE, ids |-> ids, users |-> users]
    ELSE IF entry.PasswordAuth = NoAuth
         THEN [ok |-> FALSE, ids |-> ids \cup {entry.ID}, users |-> users]
    ELSE IF AuthUser(entry.PasswordAuth) \in users
         THEN [ok |-> FALSE, ids |-> ids \cup {entry.ID}, users |-> users]
    ELSE [ok |-> TRUE, ids |-> ids \cup {entry.ID},
          users |-> users \cup {AuthUser(entry.PasswordAuth)}]

\* the update branch of SetPeers for an existing peer o
UpdatePeer(st, o, entry) ==
    LET mustReauth == ~CmpCredentials(st.peers[o].opts, entry)
        s1 == [st EXCEPT !.peers[o].opts = entry,
                         !.peers[o].LocalAddr = TcpDialAddr(ParseFramedIP(entry.FramedIP))]
        s2 == IF entry.Disabled THEN StorePeerDelta(CloseConnections(s1, o), o) ELSE s1
        s3 == IF mustReauth THEN StorePeerDelta(CloseConnections(s2, o), o) ELSE s2
    IN  [s3 EXCEPT !.new[entry.ID] = o, !.old[entry.ID] = Nil]

\* the create branch of SetPeers
CreatePeer(st, entry) ==
    [st EXCEPT !.peers = Append(st.peers, NewPeer(entry)),
               !.refresh = Append(st.refresh, RefreshOff),
               !.new[entry.ID] = Len(st.peers) + 1]

\* one iteration of the "update peers" loop
SetPeersEntry(st, entry) ==
    LET v == PeerOptsValid(st.ids, st.users, entry)
        s0 == [st EXCEPT !.ids = v.ids, !.users = v.users]
    IN  IF ~v.ok THEN s0
        ELSE IF s0.old[entry.ID] # Nil THEN UpdatePeer(s0, s0.old[entry.ID], entry)
        ELSE CreatePeer(s0, entry)

RECURSIVE SetPeersLoop(_, _, _)
SetPeersLoop(st, entries, i) ==
    IF i > Len(entries) THEN st
    ELSE SetPeersLoop(SetPeersEntry(st, entries[i]), entries, i + 1)

RECURSIVE RemoveOldPeers(_, _)
\* the "remove old peers" loop over the keys left in the old map (Go's map
\* order is unspecified; the keys are taken in increasing order, the deltas
\* are summed per ID by Deltas whatever their order)
RemoveOldPeers(st, keys) ==
    IF keys = {} THEN st
    ELSE LET k == CHOOSE x \in keys : \A y \in keys : x <= y
             s1 == IF st.old[k] # Nil /\ st.new[k] = Nil
                   THEN StorePeerDelta(CloseConnections(st, st.old[k]), st.old[k])
                   ELSE st
         IN  RemoveOldPeers(s1, keys \ {k})

\* the remap loop run over the old peer map as well as the new one
RemapOldAndNew(st) ==
    [u \in Users |->
        IF \E k \in PeerIDs : /\ st.new[k] # Nil
                              /\ st.peers[st.new[k]].opts.PasswordAuth # NoAuth
                              /\ AuthUser(st.peers[st.new[k]].opts.PasswordAuth) = u
        THEN st.new[CHOOSE k \in PeerIDs :
                        /\ st.new[k] # Nil
                        /\ st.peers[st.new[k]].opts.PasswordAuth # NoAuth
                        /\ AuthUser(st.peers[st.new[k]].opts.PasswordAuth) = u]
        ELSE IF \E k \in PeerIDs : /\ st.old[k] # Nil
                                   /\ AuthUser(st.peers[st.old[k]].opts.PasswordAuth) = u
        THEN st.old[CHOOSE k \in PeerIDs :
                        /\ st.old[k] # Nil
                        /\ AuthUser(st.peers[st.old[k]].opts.PasswordAuth) = u]
        ELSE Nil]

\* the "remap by username" loop over the new peer map
RemapUserNames(st) ==
    [u \in Users |->
        IF \E k \in PeerIDs : /\ st.new[k] # Nil
                              /\ st.peers[st.new[k]].opts.PasswordAuth # NoAuth
                              /\ AuthUser(st.peers[st.new[k]].opts.PasswordAuth) = u
        THEN st.new[CHOOSE k \in PeerIDs :
                        /\ st.new[k] # Nil
                        /\ st.peers[st.new[k]].opts.PasswordAuth # NoAuth
                        /\ AuthUser(st.peers[st.new[k]].opts.PasswordAuth) = u]
        ELSE Nil]

\* Slot.SetPeers as a function of the slot state: the state record after it
SetPeersResult(entries) ==
    LET st0 == [peers |-> peers, refresh |-> refresh, conns |-> conns,
                oldDeltas |-> oldDeltas, old |-> peerMap,
                new |-> [k \in PeerIDs |-> Nil], ids |-> {}, users |-> {}]
        st1 == SetPeersLoop(st0, entries, 1)
    IN  RemoveOldPeers(st1, PeerIDs)

\* Slot.SetPeers (under slot.mtx; CloseConnections under peer.mtx): what it
\* does to the slot
SetPeersSlot(entries) ==
    LET st == SetPeersResult(entries)
    IN  /\ peers' = st.peers
        /\ refresh' = st.refresh
        /\ conns' = st.conns
        /\ oldDeltas' = st.oldDeltas
        /\ peerMap' = st.new
        /\ userNameMap' = RemapUserNames(st)
        /\ UNCHANGED <<daemon, bridge, web, bw, sock, hub, rl, now, hs, acc, rep>>

\* Slot.SetPeers
SetPeers(entries) == SetPeersSlot(entries) /\ ret' = NoRet

\* Slot.SetPeers with the batch kept for the caller to look at
SetPeersOf(entries) == SetPeersSlot(entries) /\ ret' = [op |-> "SetPeers", entries |-> entries]

\* Slot.SetPeers with the batch and the options it replaced kept for the
\* caller to look at
SetPeersFrom(entries) ==
    /\ SetPeersSlot(entries)
    /\ ret' = [op |-> "SetPeers", entries |-> entries,
               was |-> [k \in PeerIDs |-> IF peerMap[k] = Nil THEN <<>>
                                          ELSE <<peers[peerMap[k]].opts>>]]

\* ------------------------------------------------------------ RateLimiter
\* no entry for a key in RateLimiter.entries
NoCounter == [has |-> FALSE, init |-> 0, quota |-> 0, expires |-> 0, mod |-> FALSE]

\* RlCounter.resetTo
ResetTo(ctr, val) == [ctr EXCEPT !.init = val, !.quota = val]

\* RateLimiter.Get(key) at time t: the limiter after it.  The entry is
\* created on a miss (zero expiry), refilled when its expiry is before t,
\* its expiry moved to t + Window and its mod bit set; the cleanup timer is
\* armed when none is pending.
RlGet(r, ip, t) ==
    LET c0 == IF r.entries[ip].has THEN r.entries[ip]
              ELSE [has |-> TRUE, init |-> RlQuota, quota |-> 0, expires |-> 0, mod |-> FALSE]
        c1 == IF c0.expires < t THEN ResetTo(c0, RlQuota) ELSE c0
        c2 == [c1 EXCEPT !.expires = t + RlWindow, !.mod = TRUE]
    IN  [r EXCEPT !.entries[ip] = c2,
                  !.cleanupScheduled = TRUE,
                  !.cleanupAt = IF r.cleanupScheduled THEN r.cleanupAt ELSE t + CleanupDelay]

\* RlCounter.Use: the counter after the atomic decrement (none when init <= 0)
UseCounter(ctr) == IF ctr.init <= 0 THEN ctr ELSE [ctr EXCEPT !.quota = ctr.quota - 1]

\* Use refusing one call later: quota.Add(-1) < -1
UseLimitedLate(ctr) == ctr.init > 0 /\ ctr.quota - 1 < -1

\* RlCounter.Use: true when it returns the RateLimitError
UseLimited(ctr) == ctr.init > 0 /\ ctr.quota - 1 < 0

\* a Reset that leaves the counter as Use left it
ResetNothing(ctr) == ctr

\* RlCounter.Reset
ResetCounter(ctr) == [ctr EXCEPT !.quota = ctr.init]

\* RateLimiter.cleanup at time t: an expired entry that was requested since
\* the last sweep is refilled and its mod bit cleared, an expired entry that
\* was not is deleted
RlCleanup(r, t) ==
    [r EXCEPT !.entries = [ip \in IPs |->
                              LET c == r.entries[ip]
                              IN  IF c.has /\ c.expires < t
                                  THEN IF c.mod THEN [ResetTo(c, RlQuota) EXCEPT !.mod = FALSE]
                                       ELSE NoCounter
                                  ELSE c],
              !.cleanupScheduled = FALSE]

\* ------------------------------------------------ Slot.LookupWithPassword
\* comparePasswords: subtle.ConstantTimeCompare(want, have) == 1
ComparePasswords(want, have) == want = have

\* Slot.LookupWithPassword(ip, username, password) at time t in a slot with
\* limiter r and user index unm over peers ps:
\*   [err, peer, looked, compared, rl]
\* err is "" on success, "RateLimitError" or "CredentialsError"; looked and
\* compared tell whether userNameMap was consulted and the password compared
LookupWithPassword(r, unm, ps, ip, username, password, t) ==
    LET r1 == IF r.present THEN RlGet(r, ip, t) ELSE r
        limited == r.present /\ UseLimited(r1.entries[ip])
        r2 == IF r.present THEN [r1 EXCEPT !.entries[ip] = UseCounter(r1.entries[ip])] ELSE r
        peer == unm[username]
    IN  IF limited
        THEN [err |-> "RateLimitError", peer |-> Nil, looked |-> FALSE,
              compared |-> FALSE, rl |-> r2]
        ELSE IF peer = Nil
        THEN [err |-> "CredentialsError", peer |-> Nil, looked |-> TRUE,
              compared |-> FALSE, rl |-> r2]
        ELSE IF ps[peer].opts.PasswordAuth = NoAuth
        THEN [err |-> "CredentialsError", peer |-> Nil, looked |-> TRUE,
              compared |-> FALSE, rl |-> r2]
        ELSE IF ~ComparePasswords(AuthPassword(ps[peer].opts.PasswordAuth), password)
        THEN [err |-> "CredentialsError", peer |-> Nil, looked |-> TRUE,
              compared |-> TRUE, rl |-> r2]
        ELSE [err |-> "", peer |-> peer, looked |-> TRUE, compared |-> TRUE,
              rl |-> IF r.present
                     THEN [r2 EXCEPT !.entries[ip] = ResetCounter(r2.entries[ip])]
                     ELSE r]

\* one text for every rejection
ErrorTextUniform(lk) == IF lk.err = "CredentialsError" THEN "invalid credentials" ELSE lk.err

\* CredentialsError.Error() on the error of a lookup: the Username field is
\* set only when the password was compared and differed
ErrorText(lk) ==
    IF lk.err # "CredentialsError" THEN lk.err
    ELSE IF lk.compared THEN "invalid password for user"
    ELSE "username not found"

\* -------------------------------------------------------- Peer.Connection
\* Peer.Connection on peer o: [err, peers, refresh, conns, conn].  The
\* redistributor is started (refreshActive CAS) before the cap is checked.
Connection(ps, rf, cs, o) ==
    LET started == ~ps[o].refreshActive
        ps1 == [ps EXCEPT ![o].refreshActive = TRUE]
        rf1 == IF started
               THEN [rf EXCEPT ![o] = [pc |-> "wait", conns |-> {}, lastNconn |-> 0]]
               ELSE rf
        id == Len(cs) + 1
    IN  IF TooManyConnections(ps[o])
        THEN [err |-> "ErrTooManyConnections", peers |-> ps1, refresh |-> rf1,
              conns |-> cs, conn |-> Nil]
        ELSE [err |-> "", peers |-> [ps1 EXCEPT ![o].connMap = @ \cup {id}],
              refresh |-> rf1, conns |-> Append(cs, NewConn(o)), conn |-> id]

\* ------------------------------------------------------------ Peer.refresh
\* one tick of refresh(), first half: connCleanup under peer.mtx.  Cancelled
\* connections are folded into the peer's counters (Load) and deleted; the
\* live ones are returned.
RefreshCleanup(o) ==
    /\ o \in DOMAIN peers
    /\ refresh[o].pc = "wait"
    /\ LET p == peers[o]
           closed == {c \in p.connMap : conns[c].cancelled}
       IN  /\ peers' = [peers EXCEPT
                          ![o].DeltaRx = @ + SumOver(conns, closed, "deltaRx"),
                          ![o].DeltaTx = @ + SumOver(conns, closed, "deltaTx"),
                          ![o].connMap = @ \ closed]
           /\ refresh' = [refresh EXCEPT ![o].pc = "slurp",
                                        ![o].conns = p.connMap \ closed]
    /\ ret' = NoRet
    /\ UNCHANGED <<daemon, bridge, web, bw, sock, hub, conns, peerMap, userNameMap, oldDeltas, rl, now, hs, acc, rep>>

\* one tick of refresh(), second half, without peer.mtx: slurpDeltas swaps
\* the counters of the connections connCleanup returned into the peer's,
\* then the routine leaves when this tick and the previous one saw none
RefreshSlurp(o) ==
    /\ o \in DOMAIN peers
    /\ refresh[o].pc = "slurp"
    /\ LET live == refresh[o].conns
           n == Cardinality(live)
       IN  /\ peers' = [peers EXCEPT
                          ![o].DeltaRx = @ + SumOver(conns, live, "deltaRx"),
                          ![o].DeltaTx = @ + SumOver(conns, live, "deltaTx")]
           /\ conns' = [c \in DOMAIN conns |->
                          IF c \in live
                          THEN [conns[c] EXCEPT !.deltaRx = 0, !.deltaTx = 0]
                          ELSE conns[c]]
           /\ refresh' = [refresh EXCEPT
                            ![o].pc = IF Max(n, refresh[o].lastNconn) < 1
                                      THEN "exit" ELSE "wait",
                            ![o].conns = {},
                            ![o].lastNconn = IF Max(n, refresh[o].lastNconn) < 1
                                             THEN @ ELSE n]
    /\ ret' = NoRet
    /\ UNCHANGED <<daemon, bridge, web, bw, sock, hub, peerMap, userNameMap, oldDeltas, rl, now, hs, acc, rep>>

\* the deferred function of refresh(): refreshActive.Store(false)
RefreshExit(o) ==
    /\ o \in DOMAIN peers
    /\ refresh[o].pc = "exit"
    /\ peers' = [peers EXCEPT ![o].refreshActive = FALSE]
    /\ refresh' = [refresh EXCEPT ![o] = RefreshOff]
    /\ ret' = NoRet
    /\ UNCHANGED <<daemon, bridge, web, bw, sock, hub, conns, peerMap, userNameMap, oldDeltas, rl, now, hs, acc, rep>>

\* -------------------------------------------------------------- Slot.Deltas
RECURSIVE PeerDeltaList(_, _, _)
\* the deltas Peer.Delta() yields for the peers of the map (those with a
\* positive counter), keys in increasing order
PeerDeltaList(ps, pm, keys) ==
    IF keys = {} THEN <<>>
    ELSE LET k == CHOOSE x \in keys : \A y \in keys : x <= y
             rest == PeerDeltaList(ps, pm, keys \ {k})
         IN  IF pm[k] # Nil /\ (ps[pm[k]].DeltaRx > 0 \/ ps[pm[k]].DeltaTx > 0)
             THEN <<[ID |-> ps[pm[k]].opts.ID, Rx |-> ps[pm[k]].DeltaRx,
                     Tx |-> ps[pm[k]].DeltaTx]>> \o rest
             ELSE rest

RECURSIVE SumField(_, _, _, _)
\* sum of <field> over the entries of deltaList with the given ID, from i on
SumField(deltaList, id, field, i) ==
    IF i > Len(deltaList) THEN 0
    ELSE (IF deltaList[i].ID = id THEN deltaList[i][field] ELSE 0)
         + SumField(deltaList, id, field, i + 1)

RECURSIVE MergeKeys(_, _)
\* the entries of the merge map of Slot.Deltas for the given IDs: the first
\* delta of an ID with the later ones added to it (the returned slice is in
\* Go's map order; the IDs are listed in increasing order)
MergeKeys(deltaList, keys) ==
    IF keys = {} THEN <<>>
    ELSE LET k == CHOOSE x \in keys : \A y \in keys : x <= y
         IN  <<[ID |-> k, Rx |-> SumField(deltaList, k, "Rx", 1),
                Tx |-> SumField(deltaList, k, "Tx", 1)]>>
             \o MergeKeys(deltaList, keys \ {k})

\* Deltas without the merge: the list as collected
DeltasUnmerged(deltaList) == deltaList

\* the merge of Slot.Deltas: one entry per ID of deltaList
MergeDeltas(deltaList) ==
    MergeKeys(deltaList, {deltaList[i].ID : i \in DOMAIN deltaList})

\* Slot.Deltas (under slot.mtx): the deferred deltas are taken and emptied,
\* every peer of the map has its counters swapped to zero, the list is merged
Deltas ==
    LET deltaList == oldDeltas \o PeerDeltaList(peers, peerMap, PeerIDs)
        out == MergeDeltas(deltaList)
        mapped == {peerMap[k] : k \in PeerIDs} \ {Nil}
    IN  /\ oldDeltas' = <<>>
        /\ peers' = [o \in DOMAIN peers |->
                        IF o \in mapped
                        THEN [peers[o] EXCEPT !.DeltaRx = 0, !.DeltaTx = 0]
                        ELSE peers[o]]
        /\ rep' = [k \in PeerIDs |->
                      [rx |-> rep[k].rx + SumField(deltaList, k, "Rx", 1),
                       tx |-> rep[k].tx + SumField(deltaList, k, "Tx", 1)]]
        /\ ret' = [op |-> "Deltas", out |-> out]
        /\ UNCHANGED <<daemon, bridge, web, bw, sock, hub, refresh, conns, peerMap, userNameMap, rl, now, hs, acc>>

\* ------------------------------------------------ Slot.ClosePeerConnections
RECURSIVE ClosePeers(_, _)
ClosePeers(st, keys) ==
    IF keys = {} THEN st
    ELSE LET k == CHOOSE x \in keys : \A y \in keys : x <= y
             s1 == IF st.old[k] # Nil
                   THEN StorePeerDelta(CloseConnections(st, st.old[k]), st.old[k])
                   ELSE st
         IN  ClosePeers(s1, keys \ {k})

\* Slot.ClosePeerConnections (under slot.mtx), called when the service closes
ClosePeerConnections ==
    LET st == ClosePeers([peers |-> peers, conns |-> conns, oldDeltas |-> oldDeltas,
                          old |-> peerMap], PeerIDs)
    IN  /\ peers' = st.peers
        /\ conns' = st.conns
        /\ oldDeltas' = st.oldDeltas
        /\ ret' = NoRet
        /\ UNCHANGED <<daemon, bridge, web, bw, sock, hub, refresh, peerMap, userNameMap, rl, now, hs, acc, rep>>

\* ------------------------------------------------------- protocol handlers
\* A handler goroutine (SOCKS5 serveConn/cmdConnect, HTTP ServeHTTP in
\* CONNECT mode) as far as the slot and the peer see it:
\*   idle -> LookupWithPassword -> authed -> peer.Disabled check -> checked
\*        -> peer.Connection() -> relay (ProxyBridge) -> connCtl.Close() -> idle
HandlerIdle == [pc |-> "idle", peer |-> Nil, conn |-> Nil, late |-> {}]

\* connPasswordAuth / ServeHTTP: the call of Slot.LookupWithPassword
HLookup(h, ip, username, password) ==
    /\ hs[h].pc = "idle"
    /\ LET res == LookupWithPassword(rl, userNameMap, peers, ip, username, password, now)
       IN  /\ rl' = res.rl
           /\ hs' = [hs EXCEPT ![h] = IF res.err = ""
                                      THEN [HandlerIdle EXCEPT !.pc = "authed",
                                                               !.peer = res.peer]
                                      ELSE HandlerIdle]
           /\ ret' = NoRet
    /\ UNCHANGED <<daemon, bridge, web, bw, sock, hub, slotVars, now, acc, rep>>

\* "cancel request if the peer is disabled": the handler's read of peer.Disabled
HCheckDisabled(h) ==
    /\ hs[h].pc = "authed"
    /\ hs' = [hs EXCEPT ![h] = IF peers[hs[h].peer].opts.Disabled
                               THEN HandlerIdle
                               ELSE [@ EXCEPT !.pc = "checked"]]
    /\ ret' = NoRet
    /\ UNCHANGED <<daemon, bridge, web, bw, sock, hub, slotVars, rl, now, acc, rep>>

\* cmdConnect / ServeHTTP: connCtl, err := peer.Connection()
HConnect(h) ==
    /\ hs[h].pc = "checked"
    /\ LET res == Connection(peers, refresh, conns, hs[h].peer)
       IN  /\ Len(res.conns) <= MaxConns
           /\ peers' = res.peers
           /\ refresh' = res.refresh
           /\ conns' = res.conns
           /\ hs' = [hs EXCEPT ![h] = IF res.err = ""
                                      THEN [@ EXCEPT !.pc = "relay", !.conn = res.conn]
                                      ELSE HandlerIdle]
           /\ ret' = NoRet
    /\ UNCHANGED <<daemon, bridge, web, bw, sock, hub, peerMap, userNameMap, oldDeltas, rl, now, acc, rep>>

TotalAccounted == acc[1].rx + acc[1].tx + acc[2].rx + acc[2].tx

\* SpliceConn in one direction of the bridge: PeerConnection.AccountRx /
\* AccountTx with a positive delta (one byte).  The copy loop tests
\* ctx.Err() only between iterations, so the iteration that was under way
\* when the context was cancelled still accounts what it wrote: once per
\* direction after the cancellation (late).
HAccount(h, dir) ==
    /\ hs[h].pc = "relay"
    /\ ~conns[hs[h].conn].cancelled \/ dir \notin hs[h].late
    /\ TotalAccounted < MaxBytes
    /\ LET c == hs[h].conn
           id == peers[conns[c].peer].opts.ID
       IN  /\ conns' = [conns EXCEPT ![c].deltaRx = IF dir = "rx" THEN @ + 1 ELSE @,
                                     ![c].deltaTx = IF dir = "tx" THEN @ + 1 ELSE @]
           /\ acc' = [acc EXCEPT ![id].rx = IF dir = "rx" THEN @ + 1 ELSE @,
                                 ![id].tx = IF dir = "tx" THEN @ + 1 ELSE @]
           /\ hs' = [hs EXCEPT ![h].late = IF conns[c].cancelled THEN @ \cup {dir} ELSE @]
    /\ ret' = NoRet
    /\ UNCHANGED <<daemon, bridge, web, bw, sock, hub, peers, refresh, peerMap, userNameMap, oldDeltas, rl, now, rep>>

\* ProxyBridge has joined both directions and returned (or the dial failed):
\* the deferred connCtl.Close() cancels the connection's context
HClose(h) ==
    /\ hs[h].pc = "relay"
    /\ conns' = [conns EXCEPT ![hs[h].conn].cancelled = TRUE]
    /\ hs' = [hs EXCEPT ![h] = HandlerIdle]
    /\ ret' = NoRet
    /\ UNCHANGED <<daemon, bridge, web, bw, sock, hub, peers, refresh, peerMap, userNameMap, oldDeltas, rl, now, acc, rep>>

\* ------------------------------------------------ peer bandwidth control
\* The peer of bw: its PeerBandwidth, its live connections in the order of
\* the list connCleanup returns, each [deltaRx, deltaTx, bandRx, bandTx,
\* sampled] (sampled: conn.updated is not the zero time), the whole seconds
\* since the last pass (1 stands for "at most one second"), what the last
\* step was and, right after a pass, what that pass was given (history).  The quantities are kept far below 2^32, where the uint32 words
\* of the code do not wrap.

PeerBandwidth(rx, tx, minRx, minTx) == [Rx |-> rx, Tx |-> tx, MinRx |-> minRx, MinTx |-> minTx]

\* no peer under bandwidth control
NoLast == [conns |-> <<>>, elapsed |-> 1]
NoBw == [Bandwidth |-> PeerBandwidth(0, 0, 0, 0), conns |-> <<>>, elapsed |-> 1, pass |-> "none",
         last |-> NoLast]

\* baseBandwidth of Peer.Connection with n connections in the map already
BaseBandwidth(n, base, min) == Max(IF n > 1 THEN base \div n ELSE base, min)

\* a share that is never rounded down to nothing
BaseAtLeastOne(n, val) == Max(IF n > 1 THEN val \div n ELSE val, 1)

\* getBaseBandwidth of RedistributePeerBandwidth over n connections
GetBaseBandwidth(n, val) == IF n > 1 THEN val \div n ELSE val

\* equivalentBandwidth: base scaled by the seconds since the connection was
\* sampled, when that is more than a second
EquivalentBandwidth(base, sampled, elapsed) ==
    IF sampled /\ elapsed > 1 THEN elapsed * base ELSE base

\* a threshold without the tenth of slack
SaturationAtBase(val) == val

\* saturationThreshold
SaturationThreshold(val) == val - (val \div 10)

RECURSIVE UnusedBandwidth(_, _, _, _, _, _)
\* the first loop of RedistributePeerBandwidth for one direction: the sum,
\* over the connections i.. below the threshold, of what they left unused
UnusedBandwidth(cs, field, base, thr, elapsed, i) ==
    IF i > Len(cs) THEN 0
    ELSE LET equiv == EquivalentBandwidth(base, cs[i].sampled, elapsed)
             vol == cs[i][field]
             own == IF vol >= thr THEN 0
                    ELSE IF equiv - vol > 0 THEN equiv - vol ELSE 0
         IN  own + UnusedBandwidth(cs, field, base, thr, elapsed, i + 1)

\* the first loop's count of saturated connections for one direction
Saturated(cs, field, thr) == {i \in DOMAIN cs : cs[i][field] >= thr}

\* the cap the second loop stores for connection i in one direction
NewBand(cs, field, total, min, elapsed, i) ==
    LET base == GetBaseBandwidth(Len(cs), total)
        thr == SaturationThreshold(base)
        nsat == Cardinality(Saturated(cs, field, thr))
        unused == UnusedBandwidth(cs, field, base, thr, elapsed, 1)
        extra == IF nsat > 0 /\ cs[i][field] >= thr THEN unused \div nsat ELSE 0
    IN  Max(base + extra, min)

\* RedistributePeerBandwidth(conns, bandwidth), elapsed seconds after the
\* previous pass: the connections after it
RedistributePeerBandwidth(cs, bandwidth, elapsed) ==
    [i \in DOMAIN cs |->
        [cs[i] EXCEPT !.bandRx = NewBand(cs, "deltaRx", bandwidth.Rx, bandwidth.MinRx, elapsed, i),
                      !.bandTx = NewBand(cs, "deltaTx", bandwidth.Tx, bandwidth.MinTx, elapsed, i),
                      !.sampled = TRUE]]

\* Peer.Connection on the peer of bw: the new connection gets its base caps
BwConnection ==
    /\ bw' = [bw EXCEPT
                !.conns = Append(@, [deltaRx |-> 0, deltaTx |-> 0,
                                     bandRx |-> BaseBandwidth(Len(bw.conns), bw.Bandwidth.Rx,
                                                              bw.Bandwidth.MinRx),
                                     bandTx |-> BaseBandwidth(Len(bw.conns), bw.Bandwidth.Tx,
                                                              bw.Bandwidth.MinTx),
                                     sampled |-> FALSE]),
                !.pass = "connection", !.last = NoLast]
    /\ UNCHANGED <<daemon, bridge, web, sock, hub, slotVars, rl, now, hs, acc, rep, ret>>

\* AccountRx(rx) and AccountTx(tx) on a connection that carried nothing
\* since the last pass
BwAccount(c, rx, tx) ==
    /\ c \in DOMAIN bw.conns
    /\ bw.conns[c].deltaRx = 0 /\ bw.conns[c].deltaTx = 0
    /\ rx > 0 \/ tx > 0
    /\ bw' = [bw EXCEPT !.conns[c].deltaRx = rx, !.conns[c].deltaTx = tx, !.pass = "account",
                       !.last = NoLast]
    /\ UNCHANGED <<daemon, bridge, web, sock, hub, slotVars, rl, now, hs, acc, rep, ret>>

\* one more second passes before the redistributor runs
BwWait(limit) ==
    /\ bw.elapsed < limit
    /\ bw' = [bw EXCEPT !.elapsed = @ + 1, !.pass = "wait", !.last = NoLast]
    /\ UNCHANGED <<daemon, bridge, web, sock, hub, slotVars, rl, now, hs, acc, rep, ret>>

\* one tick of refresh() on live connections: RedistributePeerBandwidth,
\* then slurpDeltas swaps the volumes to zero
BwRefresh ==
    /\ bw.conns # <<>>
    /\ bw' = [bw EXCEPT
                !.conns = [i \in DOMAIN bw.conns |->
                              [RedistributePeerBandwidth(bw.conns, bw.Bandwidth, bw.elapsed)[i]
                                  EXCEPT !.deltaRx = 0, !.deltaTx = 0]],
                !.elapsed = 1,
                !.pass = "refresh",
                !.last = [conns |-> bw.conns, elapsed |-> bw.elapsed]]
    /\ UNCHANGED <<daemon, bridge, web, sock, hub, slotVars, rl, now, hs, acc, rep, ret>>

\* ------------------------------------------------------- SOCKS5 handler
\* no client connection is being served; the log of the last one is kept
SockClosed == [pc |-> "closed", log |-> <<>>, peer |-> Nil, conn |-> Nil]

\* AuthMethod.Valid: 0x00..0x03, 0x05..0x09 and 0xff
AuthMethodValid(m) == m \in {0, 1, 2, 3, 5, 6, 7, 8, 9, 255}

\* a reading of the greeting that lets a method count of zero through
ReadAuthMethodsAnyCount(ver, methodBuff) ==
    IF ver # 5 THEN [ok |-> FALSE, methods |-> {}]
    ELSE [ok |-> TRUE,
          methods |-> {methodBuff[i] : i \in {j \in DOMAIN methodBuff :
                                                  AuthMethodValid(methodBuff[j])}}]

\* readAuthMethods on the greeting [ver][nmethods][methods]: [ok, methods].
\* A short read ends as a wrong version does.
ReadAuthMethods(ver, methodBuff) ==
    IF ver # 5 THEN [ok |-> FALSE, methods |-> {}]
    ELSE IF Len(methodBuff) = 0 THEN [ok |-> FALSE, methods |-> {}]
    ELSE [ok |-> TRUE,
          methods |-> {methodBuff[i] : i \in {j \in DOMAIN methodBuff :
                                                  AuthMethodValid(methodBuff[j])}}]

\* serveConn: any method of the greeting is taken for the password method
AnyMethodOffered(methods) == methods # {}

\* serveConn: _, has := methods[AuthMethodPassword]
PasswordMethodOffered(methods) == 2 \in methods

\* readRequest on [ver][cmd][rsv][atyp][addr][port]: [ok, Cmd, Host].  The
\* address types are IPv4 (1), Domain (3) and IPv6 (4).
ReadRequest(ver, cmd, rsv, atyp, host) ==
    IF ver # 5 \/ rsv # 0 THEN [ok |-> FALSE, Cmd |-> 0, Host |-> ""]
    ELSE IF atyp \notin {1, 3, 4} THEN [ok |-> FALSE, Cmd |-> 0, Host |-> ""]
    ELSE [ok |-> TRUE, Cmd |-> cmd, Host |-> host]

\* a check that refuses loopback destinations only
IsLoopbackOnly(host) == host = "127.0.0.1"

\* IsLocalAddress: loopback, private or unspecified IP; a domain name is not
IsLocalAddress(host) == host \in {"127.0.0.1", "10.0.0.1", "0.0.0.0"}

\* events of the log
EvRead(what, detail) == [e |-> "read", what |-> what, detail |-> detail]
\* conn.Write of a frame; ok tells whether the write succeeded.  A reply that
\* carries the address is [5][reply][0][address], written here without the
\* address bytes; its ok is also false when the address cannot be marshalled.
EvWrite(frame, ok) == [e |-> "write", frame |-> frame, ok |-> ok]
EvLookup(err, peer) == [e |-> "lookup", err |-> err, peer |-> peer]
EvAcquire(err) == [e |-> "acquire", err |-> err]
EvDial(ok) == [e |-> "dial", ok |-> ok]
EvBridge == [e |-> "bridge"]
\* conn.SetDeadline(time.Time{}) returned an error
EvDeadline == [e |-> "deadline"]

\* serveConn ends: the deferred conn.Close()
SockEnd(log) == [pc |-> "closed", log |-> log, peer |-> Nil, conn |-> Nil]

\* acceptConns: go svc.serveConn(next)
SockAccept ==
    /\ sock.pc = "closed"
    /\ sock' = [pc |-> "hello", log |-> <<>>, peer |-> Nil, conn |-> Nil]
    /\ ret' = NoRet
    /\ UNCHANGED <<daemon, bridge, web, bw, hub, slotVars, rl, now, hs, acc, rep>>

\* serveConn up to the method selection: readAuthMethods, then replyAuth of
\* the password method (the first statement of connPasswordAuth) or of 0xff
ServeHello(ver, methodBuff, wok) ==
    /\ sock.pc = "hello"
    /\ LET rd == ReadAuthMethods(ver, methodBuff)
           l0 == Append(sock.log, EvRead("hello", [ver |-> ver, methods |-> rd.methods]))
       IN  sock' =
             IF ~rd.ok THEN SockEnd(Append(l0, EvWrite(<<5, 1>>, wok)))
             ELSE IF ~PasswordMethodOffered(rd.methods)
                  THEN SockEnd(Append(l0, EvWrite(<<5, 255>>, wok)))
             ELSE IF ~wok THEN SockEnd(Append(l0, EvWrite(<<5, 2>>, FALSE)))
             ELSE [sock EXCEPT !.pc = "auth", !.log = Append(l0, EvWrite(<<5, 2>>, TRUE))]
    /\ ret' = NoRet
    /\ UNCHANGED <<daemon, bridge, web, bw, hub, slotVars, rl, now, hs, acc, rep>>

\* a status sent in the frame of the SOCKS replies: [ProtoVersionByte][status]
StatusAsProtoReply(val) == <<5, val>>

\* the reply closure of connPasswordAuth: [PasswordAuthVersion][status], with
\* PasswordAuthOk = 0x00 and PasswordAuthFail = 0x01
PasswordAuthReply(val) == <<1, val>>

\* connPasswordAuth after the method selection: readCredentials, the empty
\* user check, Slot.LookupWithPassword and the status reply
ServeAuthResult(subver, username, password, wok) ==
    LET l0 == Append(sock.log, EvRead("auth", [ver |-> subver, user |-> username]))
        lk == LookupWithPassword(rl, userNameMap, peers, "ip1", username, password, now)
    IN  IF subver # 1 \/ username = ""
        THEN [sock |-> SockEnd(Append(l0, EvWrite(PasswordAuthReply(1), wok))), rl |-> rl]
        ELSE [rl |-> lk.rl,
              sock |->
                  IF lk.err # ""
                  THEN SockEnd(Append(Append(l0, EvLookup(lk.err, Nil)),
                                      EvWrite(PasswordAuthReply(1), wok)))
                  ELSE IF ~wok
                  THEN SockEnd(Append(Append(l0, EvLookup("", lk.peer)),
                                      EvWrite(PasswordAuthReply(0), FALSE)))
                  ELSE [sock EXCEPT !.pc = "request", !.peer = lk.peer,
                                    !.log = Append(Append(l0, EvLookup("", lk.peer)),
                                                   EvWrite(PasswordAuthReply(0), TRUE))]]

\* serveConn in connPasswordAuth: the step of the served connection
ServeAuth(subver, username, password, wok) ==
    /\ sock.pc = "auth"
    /\ sock' = ServeAuthResult(subver, username, password, wok).sock
    /\ rl' = ServeAuthResult(subver, username, password, wok).rl
    /\ ret' = NoRet
    /\ UNCHANGED <<daemon, bridge, web, bw, hub, slotVars, now, hs, acc, rep>>

\* serveConn from readRequest to the command switch: the request, the
\* peer.Disabled check, the deadline reset (dok), the local address check
ServeRequest(ver, cmd, rsv, atyp, host, dok, wok) ==
    /\ sock.pc = "request"
    /\ LET req == ReadRequest(ver, cmd, rsv, atyp, host)
           l0 == Append(sock.log, EvRead("request", req))
       IN  sock' =
             IF ~req.ok THEN SockEnd(Append(l0, EvWrite(<<5, 1>>, wok)))
             ELSE IF peers[sock.peer].opts.Disabled
                  THEN SockEnd(Append(l0, EvWrite(<<5, 2>>, wok)))
             ELSE IF ~dok THEN SockEnd(Append(Append(l0, EvDeadline), EvWrite(<<5, 1>>, wok)))
             ELSE IF IsLocalAddress(req.Host)
                  THEN SockEnd(Append(l0, EvWrite(<<5, 2>>, wok)))
             ELSE IF req.Cmd # 1 THEN SockEnd(Append(l0, EvWrite(<<5, 7>>, wok)))
             ELSE [sock EXCEPT !.pc = "connect", !.log = l0]
    /\ ret' = NoRet
    /\ UNCHANGED <<daemon, bridge, web, bw, hub, slotVars, rl, now, hs, acc, rep>>

\* every failed acquisition answered with the generic error
ConnectionErrGeneric(err) == 1

\* cmdConnect: ReplyErrConnNotAllowedByRuleset for ErrTooManyConnections,
\* ReplyErrGeneric for any other error of peer.Connection()
ConnectionErrReply(err) == IF err = "ErrTooManyConnections" THEN 2 ELSE 1

\* cmdConnect: connCtl, err := peer.Connection()
CmdConnection(wok) ==
    /\ sock.pc = "connect"
    /\ LET res == Connection(peers, refresh, conns, sock.peer)
           l0 == Append(sock.log, EvAcquire(res.err))
       IN  /\ Len(res.conns) <= MaxConns
           /\ peers' = res.peers
           /\ refresh' = res.refresh
           /\ conns' = res.conns
           /\ sock' = IF res.err # ""
                      THEN SockEnd(Append(l0, EvWrite(<<5, ConnectionErrReply(res.err), 0>>, wok)))
                      ELSE [sock EXCEPT !.pc = "dial", !.conn = res.conn, !.log = l0]
    /\ ret' = NoRet
    /\ UNCHANGED <<daemon, bridge, web, bw, hub, peerMap, userNameMap, oldDeltas, rl, now, hs, acc, rep>>

\* cmdConnect: peer.Dialer.DialContext; on failure the host unreachable
\* reply and the deferred connCtl.Close()
CmdDial(ok, wok) ==
    /\ sock.pc = "dial"
    /\ LET l0 == Append(sock.log, EvDial(ok))
       IN  IF ok
           THEN /\ sock' = [sock EXCEPT !.pc = "reply", !.log = l0]
                /\ conns' = conns
           ELSE /\ sock' = SockEnd(Append(l0, EvWrite(<<5, 4, 0>>, wok)))
                /\ conns' = [conns EXCEPT ![sock.conn].cancelled = TRUE]
    /\ ret' = NoRet
    /\ UNCHANGED <<daemon, bridge, web, bw, hub, peers, refresh, peerMap, userNameMap, oldDeltas, rl, now, hs, acc, rep>>

\* cmdConnect: reply(conn, ReplyOk, host), then ProxyBridge is entered
CmdReplyOk(wok) ==
    /\ sock.pc = "reply"
    /\ LET l0 == Append(sock.log, EvWrite(<<5, 0, 0>>, wok))
       IN  IF wok
           THEN /\ sock' = [sock EXCEPT !.pc = "bridge", !.log = Append(l0, EvBridge)]
                /\ conns' = conns
           ELSE /\ sock' = SockEnd(l0)
                /\ conns' = [conns EXCEPT ![sock.conn].cancelled = TRUE]
    /\ ret' = NoRet
    /\ UNCHANGED <<daemon, bridge, web, bw, hub, peers, refresh, peerMap, userNameMap, oldDeltas, rl, now, hs, acc, rep>>

\* ProxyBridge returns: the deferred dstConn.Close() and connCtl.Close()
CmdBridgeDone ==
    /\ sock.pc = "bridge"
    /\ sock' = SockEnd(sock.log)
    /\ conns' = [conns EXCEPT ![sock.conn].cancelled = TRUE]
    /\ ret' = NoRet
    /\ UNCHANGED <<daemon, bridge, web, bw, hub, peers, refresh, peerMap, userNameMap, oldDeltas, rl, now, hs, acc, rep>>

\* ----------------------------------------------------------- HTTP handler
\* One request in service.ServeHTTP.  req is what the client sent (its
\* Proxy-Authorization header value, "" when absent, the method and the
\* destination proxyRequestHost derives), status the code of WriteHeader
\* (0: none written), header the response headers the handler set, log what
\* the handler did (history).

NoHeader == [Via |-> "", XForwarded |-> "", ProxyAuthenticate |-> "", ProxyConnection |-> "",
             RetryAfter |-> <<>>]

WebIdle == [pc |-> "idle", req |-> <<>>, status |-> 0, header |-> NoHeader, log |-> <<>>,
            peer |-> Nil, conn |-> Nil]

\* strings.Cut(proxyAuth, " ") on the header values of the model
CutSpace(proxyAuth) ==
    CASE proxyAuth = "Basic dTE6cDE=" -> <<"Basic", "dTE6cDE=">>
      [] proxyAuth = "basic dTE6cDI=" -> <<"basic", "dTE6cDI=">>
      [] proxyAuth = "Bearer dTE6cDE=" -> <<"Bearer", "dTE6cDE=">>
      [] proxyAuth = "Basic dTE6cDE" -> <<"Basic", "dTE6cDE">>
      [] proxyAuth = "Basic OnAx" -> <<"Basic", "OnAx">>
      [] proxyAuth = "Basic dTE6cDI=" -> <<"Basic", "dTE6cDI=">>
      [] proxyAuth = "Basic dTI6cDE=" -> <<"Basic", "dTI6cDE=">>
      [] proxyAuth = "Basic dTI6cDI=" -> <<"Basic", "dTI6cDI=">>
      [] OTHER -> <<proxyAuth, "">>

\* strings.ToLower(strings.TrimSpace(schema))
LowerTrim(schema) ==
    CASE schema = "Basic" -> "basic"
      [] schema = "Bearer" -> "bearer"
      [] OTHER -> schema

\* base64.StdEncoding.DecodeString followed by strings.Cut(userauth, ":"):
\* [ok, user, password]
DecodeUserPassword(token) ==
    CASE token = "dTE6cDE=" -> [ok |-> TRUE, user |-> "u1", password |-> "p1"]
      [] token = "dTE6cDI=" -> [ok |-> TRUE, user |-> "u1", password |-> "p2"]
      [] token = "OnAx" -> [ok |-> TRUE, user |-> "", password |-> "p1"]
      [] token = "dTI6cDE=" -> [ok |-> TRUE, user |-> "u2", password |-> "p1"]
      [] token = "dTI6cDI=" -> [ok |-> TRUE, user |-> "u2", password |-> "p2"]
      [] token = "" -> [ok |-> TRUE, user |-> "", password |-> ""]
      [] OTHER -> [ok |-> FALSE, user |-> "", password |-> ""]

\* proxyRequestCredentials: [ok, user, password]
ProxyRequestCredentials(proxyAuth) ==
    LET cut == CutSpace(proxyAuth)
        d == DecodeUserPassword(cut[2])
        bad == [ok |-> FALSE, user |-> "", password |-> ""]
    IN  IF proxyAuth = "" THEN bad
        ELSE IF LowerTrim(cut[1]) # "basic" THEN bad
        ELSE IF ~d.ok THEN bad
        ELSE IF d.user = "" THEN bad
        ELSE d

EvForward(ok) == [e |-> "forward", ok |-> ok]

\* the handler returns after WriteHeader(status)
WebDone(w, status) == [w EXCEPT !.pc = "done", !.status = status, !.peer = Nil, !.conn = Nil]

\* every error of the lookup answered as rejected credentials are
LookupErrForbidden(err) == 403

\* ServeHTTP: the status for an error of LookupWithPassword,
\* StatusTooManyRequests for the RateLimitError and StatusForbidden for the
\* CredentialsError and any other
LookupErrStatus(err) == IF err = "RateLimitError" THEN 429 ELSE 403

\* ServeHTTP from its start to the result of LookupWithPassword: the Via and
\* X-Forwarded headers, proxyRequestCredentials, the lookup and its errors
HttpServeResult(proxyAuth, method, host) ==
    LET w0 == [WebIdle EXCEPT !.req = [auth |-> proxyAuth, method |-> method, host |-> host],
                              !.header.Via = "nx-proxy",
                              !.header.XForwarded = host]
        creds == ProxyRequestCredentials(proxyAuth)
        lk == LookupWithPassword(rl, userNameMap, peers, "ip1", creds.user, creds.password,
                                 now)
        w1 == [w0 EXCEPT !.log = <<EvLookup(lk.err, lk.peer)>>]
        w2 == [w1 EXCEPT !.header.ProxyConnection = "Close"]
    IN  IF ~creds.ok
        THEN [web |-> WebDone([w0 EXCEPT !.header.ProxyAuthenticate = "Basic"], 401),
              rl |-> rl]
        ELSE [rl |-> lk.rl,
              web |-> IF lk.err = "RateLimitError"
                      THEN WebDone([w2 EXCEPT !.header.RetryAfter =
                                                 <<lk.rl.entries["ip1"].expires>>],
                                   LookupErrStatus(lk.err))
                      ELSE IF lk.err # "" THEN WebDone(w2, LookupErrStatus(lk.err))
                      ELSE [w1 EXCEPT !.pc = "authed", !.peer = lk.peer]]

\* ServeHTTP up to the result of the lookup: the step of the request
HttpServe(proxyAuth, method, host) ==
    /\ web.pc \in {"idle", "done"}
    /\ web' = HttpServeResult(proxyAuth, method, host).web
    /\ rl' = HttpServeResult(proxyAuth, method, host).rl
    /\ ret' = NoRet
    /\ UNCHANGED <<daemon, bridge, bw, sock, hub, slotVars, now, hs, acc, rep>>

\* ServeHTTP after the lookup: the peer.Disabled check, the local address
\* check and the choice between forwarding and CONNECT
HttpRoute ==
    /\ web.pc = "authed"
    /\ web' = IF peers[web.peer].opts.Disabled THEN WebDone(web, 402)
              ELSE IF IsLocalAddress(web.req.host)
                   THEN WebDone([web EXCEPT !.header.ProxyConnection = "Close"], 502)
              ELSE IF web.req.method # "CONNECT" THEN [web EXCEPT !.pc = "forward"]
              ELSE [web EXCEPT !.pc = "connect"]
    /\ ret' = NoRet
    /\ UNCHANGED <<daemon, bridge, bw, sock, hub, slotVars, rl, now, hs, acc, rep>>

\* forward mode: forwardRequest (rok), peer.HttpClient.Do (dok) and
\* writeForwarded with the status of the upstream response
HttpForward(rok, dok) ==
    /\ web.pc = "forward"
    /\ web' = IF ~rok THEN WebDone(web, 400)
              ELSE IF ~dok THEN WebDone([web EXCEPT !.log = Append(@, EvForward(FALSE))], 502)
              ELSE WebDone([web EXCEPT !.log = Append(@, EvForward(TRUE))], 200)
    /\ ret' = NoRet
    /\ UNCHANGED <<daemon, bridge, bw, sock, hub, slotVars, rl, now, hs, acc, rep>>

\* CONNECT mode: connCtl, err := peer.Connection()
HttpConnection ==
    /\ web.pc = "connect"
    /\ LET res == Connection(peers, refresh, conns, web.peer)
           w0 == [web EXCEPT !.log = Append(@, EvAcquire(res.err))]
       IN  /\ Len(res.conns) <= MaxConns
           /\ peers' = res.peers
           /\ refresh' = res.refresh
           /\ conns' = res.conns
           /\ web' = IF res.err = "ErrTooManyConnections"
                     THEN WebDone([w0 EXCEPT !.header.ProxyConnection = "Close"], 429)
                     ELSE IF res.err # ""
                     THEN WebDone([w0 EXCEPT !.header.ProxyConnection = "Close"], 500)
                     ELSE [w0 EXCEPT !.pc = "dial", !.conn = res.conn]
    /\ ret' = NoRet
    /\ UNCHANGED <<daemon, bridge, bw, sock, hub, peerMap, userNameMap, oldDeltas, rl, now, hs, acc, rep>>

\* CONNECT mode: peer.Dialer.DialContext; on failure 502 and the deferred
\* connCtl.Close()
HttpDial(ok) ==
    /\ web.pc = "dial"
    /\ LET w0 == [web EXCEPT !.log = Append(@, EvDial(ok))]
       IN  IF ok
           THEN /\ web' = [w0 EXCEPT !.pc = "hijack"]
                /\ conns' = conns
           ELSE /\ web' = WebDone([w0 EXCEPT !.header.ProxyConnection = "Close"], 502)
                /\ conns' = [conns EXCEPT ![web.conn].cancelled = TRUE]
    /\ ret' = NoRet
    /\ UNCHANGED <<daemon, bridge, bw, sock, hub, peers, refresh, peerMap, userNameMap, oldDeltas, rl, now, hs, acc, rep>>

\* the pipelined bytes counted as received
AccountAsRx(conn, delta) == IF delta > 0 THEN [conn EXCEPT !.deltaRx = @ + delta] ELSE conn

\* PeerConnection.AccountTx(delta)
AccountTx(conn, delta) == IF delta > 0 THEN [conn EXCEPT !.deltaTx = @ + delta] ELSE conn

\* dstConn.Write(trailer) wrote n bytes
EvFlush(n) == [e |-> "flush", n |-> n]

\* CONNECT mode: Hijack (hok), writeAck of "200 Connection established"
\* (wok), the bytes the hijacked reader has buffered (trailLen of them; pok:
\* Peek succeeded, dwok: dstConn.Write succeeded) written to the destination
\* and accounted, and the entry into ProxyBridge
HttpTunnel(hok, wok, trailLen, pok, dwok) ==
    /\ web.pc = "hijack"
    /\ LET closed == [conns EXCEPT ![web.conn].cancelled = TRUE]
           acked == [web EXCEPT !.status = 200, !.header.ProxyConnection = "Keep-Alive"]
       IN  IF ~hok
           THEN /\ web' = WebDone(web, 501)
                /\ conns' = closed
           ELSE IF ~wok
           THEN /\ web' = WebDone(web, 0)
                /\ conns' = closed
           ELSE IF trailLen = 0
           THEN /\ web' = [acked EXCEPT !.pc = "bridge", !.log = Append(@, EvBridge)]
                /\ conns' = conns
           ELSE IF ~pok \/ ~dwok
           THEN /\ web' = WebDone(acked, 200)
                /\ conns' = closed
           ELSE /\ web' = [acked EXCEPT !.pc = "bridge",
                                        !.log = Append(Append(@, EvFlush(trailLen)), EvBridge)]
                /\ conns' = [conns EXCEPT ![web.conn] = AccountTx(@, trailLen)]
    /\ ret' = NoRet
    /\ UNCHANGED <<daemon, bridge, bw, sock, hub, peers, refresh, peerMap, userNameMap, oldDeltas, rl, now, hs, acc, rep>>

\* ProxyBridge returns: the deferred conn.Close(), dstConn.Close() and
\* connCtl.Close()
HttpBridgeDone ==
    /\ web.pc = "bridge"
    /\ web' = [web EXCEPT !.pc = "done", !.peer = Nil, !.conn = Nil]
    /\ conns' = [conns EXCEPT ![web.conn].cancelled = TRUE]
    /\ ret' = NoRet
    /\ UNCHANGED <<daemon, bridge, bw, sock, hub, peers, refresh, peerMap, userNameMap, oldDeltas, rl, now, hs, acc, rep>>

\* ------------------------------------------------------------- ServiceHub
\* The hub holds its slot services by reference: svcs is the heap of the
\* services ever created, bindMap maps a bind key to an index of svcs.  A
\* service is [opts, cancelled, listening, sock, deltas]: its SlotOptions, whether its
\* context was cancelled (SOCKS5), whether its listener is open, and the
\* socket the listener was bound to, and deltas, what its Slot.Deltas() would
\* return now (the slot model tells how that list comes about).  The peers
\* of an entry (slot.SetPeers) are left to the slot model.

\* a map[string]SlotService with no key
EmptyMap == [k \in {} |-> Nil]
MapPut(m, k, v) == [x \in DOMAIN m \cup {k} |-> IF x = k THEN v ELSE m[x]]
MapDel(m, k) == [x \in DOMAIN m \ {k} |-> m[x]]

\* a zero ServiceHub
NewHub == [svcs |-> <<>>, bindMap |-> EmptyMap, errSlots |-> <<>>, oldDeltas |-> <<>>]

SlotOpt(id, proto, bindAddr) == [ID |-> id, Proto |-> proto, BindAddr |-> bindAddr]

\* ProxyProto.Valid
ProxyProtoValid(proto) == proto = "http" \/ proto = "socks"

\* SlotOptions.Compatible / the Fingerprint comparison of the SOCKS5 service
Compatible(opts, other) == opts.Proto = other.Proto /\ opts.BindAddr = other.BindAddr

\* net.SplitHostPort on the addresses of the model
SplitHostPort(addr) ==
    CASE addr = "1.1.1.1:80" -> [ok |-> TRUE, host |-> "1.1.1.1", port |-> "80"]
      [] addr = "1.1.1.1:080" -> [ok |-> TRUE, host |-> "1.1.1.1", port |-> "080"]
      [] addr = "1.1.1.1:0" -> [ok |-> TRUE, host |-> "1.1.1.1", port |-> "0"]
      [] addr = "localhost:80" -> [ok |-> TRUE, host |-> "localhost", port |-> "80"]
      [] OTHER -> [ok |-> FALSE, host |-> "", port |-> ""]

\* net.ParseIP(host) != nil
ParseIP(host) == host = "1.1.1.1"

\* strconv.Atoi on the port strings of the model
Atoi(str) ==
    CASE str = "80" -> [ok |-> TRUE, val |-> 80]
      [] str = "080" -> [ok |-> TRUE, val |-> 80]
      [] str = "0" -> [ok |-> TRUE, val |-> 0]
      [] OTHER -> [ok |-> FALSE, val |-> 0]

\* ServiceBindAddr: [ok, key]; the key <<host, port, suffix>> stands for
\* JoinHostPort(host, Itoa(port)) + suffix
ServiceBindAddr(addr, service) ==
    LET sp == SplitHostPort(addr)
        port == Atoi(sp.port)
    IN  IF ~sp.ok THEN [ok |-> FALSE, key |-> <<>>]
        ELSE IF ~ParseIP(sp.host) THEN [ok |-> FALSE, key |-> <<>>]
        ELSE IF ~port.ok THEN [ok |-> FALSE, key |-> <<>>]
        ELSE [ok |-> TRUE,
              key |-> <<sp.host, port.val,
                        IF service = "http" \/ service = "socks" THEN "/tcp" ELSE "">>]

\* the socket net.Listen("tcp", addr) binds: the address and port of addr,
\* or a port of the system's choice when the port is 0 (eph: the first one
\* that no open listener of svcs holds)
ListenSocket(svcs, addr) ==
    LET sp == SplitHostPort(addr)
        port == Atoi(sp.port).val
        held == {svcs[x].sock.eph : x \in {y \in DOMAIN svcs : svcs[y].listening}}
        free == CHOOSE n \in 1..(Len(svcs) + 1) :
                    n \notin held /\ \A m \in 1..(n - 1) : m \in held
    IN  [host |-> sp.host, port |-> port, eph |-> IF port = 0 THEN free ELSE 0]

\* NewService of either protocol: [err, svcs].  net.Listen fails when the
\* socket is held by an open listener of this process, or for a reason
\* outside of it (lok false)
NewService(svcs, opts, lok) ==
    LET sk == ListenSocket(svcs, opts.BindAddr)
        inUse == \E x \in DOMAIN svcs : svcs[x].listening /\ svcs[x].sock = sk
    IN  IF inUse THEN [err |-> TRUE, text |-> "address already in use", svcs |-> svcs]
        ELSE IF ~lok THEN [err |-> TRUE, text |-> "listen error", svcs |-> svcs]
        ELSE [err |-> FALSE, text |-> "",
              svcs |-> Append(svcs, [opts |-> opts, cancelled |-> FALSE,
                                     listening |-> TRUE, sock |-> sk,
                                     deltas |-> <<>>])]

\* a Close that reports no error and leaves the listener as it is
CloseLeavesOpen(svcs, sid, outcome) ==
    [err |-> FALSE, svcs |-> [svcs EXCEPT ![sid].cancelled = TRUE]]

\* outcomes of a listener's Close: closed without error, closed with an
\* error, or an error that leaves it open
CloseOutcomes == {"ok", "err_closed", "err_open"}

\* service.Close of svcs[sid]: [err, svcs].  The SOCKS5 service returns nil
\* at once when its context is cancelled already, the HTTP service closes
\* its server every time.
Close(svcs, sid, outcome) ==
    LET svc == svcs[sid]
    IN  IF svc.opts.Proto = "socks" /\ svc.cancelled THEN [err |-> FALSE, svcs |-> svcs]
        ELSE [err |-> outcome # "ok",
              svcs |-> [svcs EXCEPT ![sid].cancelled = TRUE,
                                    ![sid].listening = @ /\ outcome = "err_open"]]

\* storeSlotErr: the SlotInfo of an entry whose slot could not be created
storeSlotErr(entry, text) ==
    [ID |-> entry.ID, Proto |-> entry.Proto, BindAddr |-> entry.BindAddr,
     Up |-> FALSE, Error |-> text]

\* Slot.Info of a running service
Info(svc) ==
    [ID |-> svc.opts.ID, Proto |-> svc.opts.Proto, BindAddr |-> svc.opts.BindAddr,
     Up |-> TRUE, Error |-> ""]

\* the deltas of a slot left where they are
DeltasDropped(st, sid) == st

\* hub.oldDeltas = append(hub.oldDeltas, slot.Deltas()...) on the loop state
\* st: the deltas of svcs[sid] are taken from the slot
SlotDeltas(st, sid) ==
    [st EXCEPT !.oldDeltas = @ \o st.svcs[sid].deltas,
               !.svcs[sid].deltas = <<>>]

\* a line of the log: the message and the bind key it is about (none for an
\* entry that has no bind key)
LogLine(msg, key) == [msg |-> msg, key |-> key]

\* one iteration of the loop over the entries of SetServices
SetServicesEntry(st, entry, lok, closeOut) ==
    IF entry.ID = Nil \/ entry.ID \in st.ids
    THEN [st EXCEPT !.log = @ \cup {LogLine("Entry invalid; Skipped", <<>>)},
                    !.skipped = Append(@, entry)]
    ELSE LET s0 == [st EXCEPT !.ids = @ \cup {entry.ID}]
             ba == ServiceBindAddr(entry.BindAddr, entry.Proto)
             has == ba.key \in DOMAIN s0.old
         IN  IF ~ProxyProtoValid(entry.Proto)
             THEN [s0 EXCEPT !.log = @ \cup {LogLine("Entry invalid; Skipped", <<>>)},
                             !.skipped = Append(@, entry)]
             ELSE IF ~ba.ok
             THEN [s0 EXCEPT !.log = @ \cup {LogLine("ServiceBindAddr invalid", <<>>)},
                             !.skipped = Append(@, entry)]
             ELSE IF has /\ Compatible(s0.svcs[s0.old[ba.key]].opts, entry)
             THEN [s0 EXCEPT !.svcs[s0.old[ba.key]].opts = entry,
                             !.new = MapPut(@, ba.key, s0.old[ba.key]),
                             !.old = MapDel(@, ba.key),
                             !.log = @ \cup {LogLine("Update slot", ba.key)}]
             ELSE LET cl == IF has THEN Close(s0.svcs, s0.old[ba.key], closeOut[s0.old[ba.key]])
                            ELSE [err |-> FALSE, svcs |-> s0.svcs]
                      s1 == [s0 EXCEPT !.svcs = cl.svcs]
                      s2 == IF has THEN SlotDeltas(s1, s0.old[ba.key]) ELSE s1
                      ns == NewService(s2.svcs, entry, lok)
                  IN  IF cl.err
                      THEN [s1 EXCEPT !.log = @ \cup {LogLine("Close outdated slot", ba.key)}]
                      ELSE IF ns.err
                      THEN [s2 EXCEPT !.errSlots = Append(@, storeSlotErr(entry, ns.text)),
                                      !.log = @ \cup {LogLine("Unable to create slot", ba.key)}]
                      ELSE [s2 EXCEPT !.svcs = ns.svcs,
                                      !.new = MapPut(@, ba.key, Len(ns.svcs)),
                                      !.log = @ \cup {LogLine(IF has THEN "Replace slot"
                                                              ELSE "Create slot", ba.key)}]

RECURSIVE SetServicesLoop(_, _, _, _, _)
SetServicesLoop(st, entries, lok, closeOut, i) ==
    IF i > Len(entries) THEN st
    ELSE SetServicesLoop(SetServicesEntry(st, entries[i], lok, closeOut),
                         entries, lok, closeOut, i + 1)

RECURSIVE RemoveOldSlots(_, _)
\* the loop over the slots left in hub.bindMap: each is closed; one that
\* fails to close is kept under its key unless a newer slot took the key
RemoveOldSlots(st, closeOut) ==
    IF DOMAIN st.old = {} THEN st
    ELSE LET key == CHOOSE k \in DOMAIN st.old : TRUE
             sid == st.old[key]
             cl == Close(st.svcs, sid, closeOut[sid])
         IN  RemoveOldSlots(
                 SlotDeltas([st EXCEPT !.svcs = cl.svcs,
                                       !.new = IF cl.err /\ key \notin DOMAIN st.new
                                               THEN MapPut(@, key, sid) ELSE @,
                                       !.old = MapDel(@, key),
                                       !.log = @ \cup {LogLine(IF cl.err THEN "Slot failed to terminate"
                                                               ELSE "Remove slot", key)}], sid),
                 closeOut)

\* the garbage collector: a service that neither listens nor is held by
\* bindMap is dropped from the heap, the others keep their order
Collect(svcs, bindMap) ==
    LET live == {x \in DOMAIN svcs :
                    svcs[x].listening \/ \E k \in DOMAIN bindMap : bindMap[k] = x}
        rank(x) == Cardinality({y \in live : y <= x})
    IN  [svcs |-> [i \in 1..Cardinality(live) |-> svcs[CHOOSE x \in live : rank(x) = i]],
         bindMap |-> [k \in DOMAIN bindMap |-> rank(bindMap[k])]]

\* the two loops of SetServices; log holds the lines written, each with the
\* bind key it is about, skipped the entries that were logged as invalid
SetServicesRun(entries, lok, closeOut) ==
    LET st0 == [svcs |-> hub.svcs, old |-> hub.bindMap, new |-> EmptyMap,
                errSlots |-> <<>>, ids |-> {}, oldDeltas |-> hub.oldDeltas,
                log |-> {}, skipped |-> <<>>]
    IN  RemoveOldSlots(SetServicesLoop(st0, entries, lok, closeOut, 1), closeOut)

\* hub.bindMap = newBindMap at the end of the loops st
HubAfter(st) ==
    LET gc == Collect(st.svcs, st.new)
    IN  [svcs |-> gc.svcs, bindMap |-> gc.bindMap, errSlots |-> st.errSlots,
         oldDeltas |-> st.oldDeltas]

\* ServiceHub.SetServices as a function of the hub: the hub after it
SetServicesResult(entries, lok, closeOut) ==
    HubAfter(SetServicesRun(entries, lok, closeOut))

\* ServiceHub.SetServices (under hub.mtx).  lok tells whether the Listens of
\* this call can succeed, closeOut[sid] how the listener of svcs[sid] closes.
SetServices(entries, lok, closeOut) ==
    /\ hub' = SetServicesResult(entries, lok, closeOut)
    /\ ret' = NoRet
    /\ UNCHANGED <<daemon, bridge, web, bw, sock, slotVars, rl, now, hs, acc, rep>>

\* SetServices with the lines it logged
SetServicesLogged(entries, lok, closeOut) ==
    /\ LET st == SetServicesRun(entries, lok, closeOut)
       IN  /\ hub' = HubAfter(st)
           /\ ret' = [op |-> "SetServices", log |-> st.log, skipped |-> st.skipped]
    /\ UNCHANGED <<daemon, bridge, web, bw, sock, slotVars, rl, now, hs, acc, rep>>

\* the slots of bindMap
BoundSlots == {hub.bindMap[k] : k \in DOMAIN hub.bindMap}

RECURSIVE CloseAll(_, _, _)
\* the loop of CloseSlots on st = [svcs, oldDeltas]
CloseAll(st, sids, closeOut) ==
    IF sids = {} THEN st
    ELSE LET sid == CHOOSE x \in sids : TRUE
             cl == Close(st.svcs, sid, closeOut[sid])
         IN  CloseAll(SlotDeltas([st EXCEPT !.svcs = cl.svcs], sid),
                      sids \ {sid}, closeOut)

\* ServiceHub.CloseSlots: every slot is closed, its deltas are deferred and
\* it is deleted from the map
CloseSlotsResult(closeOut) ==
    LET st == CloseAll([svcs |-> hub.svcs, oldDeltas |-> hub.oldDeltas],
                       BoundSlots, closeOut)
    IN  [svcs |-> Collect(st.svcs, EmptyMap).svcs,
         bindMap |-> EmptyMap, errSlots |-> <<>>,
         oldDeltas |-> st.oldDeltas]

CloseSlots(closeOut) ==
    /\ hub' = CloseSlotsResult(closeOut)
    /\ ret' = NoRet
    /\ UNCHANGED <<daemon, bridge, web, bw, sock, slotVars, rl, now, hs, acc, rep>>

RECURSIVE SlotDeltaList(_, _)
\* the deltas of the slots sids, taken in the order of the sequence sids
SlotDeltaList(svcs, sids) ==
    IF sids = <<>> THEN <<>>
    ELSE svcs[Head(sids)].deltas \o SlotDeltaList(svcs, Tail(sids))

\* the orders in which a range over bindMap can visit its slots
MapOrders(bindMap) ==
    LET ks == DOMAIN bindMap
    IN  {q \in [1..Cardinality(ks) -> {bindMap[k] : k \in ks}] :
            \A k \in ks : \E i \in DOMAIN q : q[i] = bindMap[k]}

\* ServiceHub.SlotInfo (under hub.mtx): the failed slots are handed out once,
\* followed by the Info of every slot of bindMap
SlotInfo ==
    /\ hub' = [hub EXCEPT !.errSlots = <<>>]
    /\ \E order \in MapOrders(hub.bindMap) :
          ret' = [op |-> "SlotInfo",
                  out |-> hub.errSlots \o [i \in DOMAIN order |-> Info(hub.svcs[order[i]])]]
    /\ UNCHANGED <<daemon, bridge, web, bw, sock, slotVars, rl, now, hs, acc, rep>>

\* ServiceHub.Deltas (under hub.mtx): the deferred deltas and the deltas of
\* every slot of bindMap are handed out once
HubDeltas ==
    /\ \E order \in MapOrders(hub.bindMap) :
          ret' = [op |-> "HubDeltas",
                  out |-> hub.oldDeltas \o SlotDeltaList(hub.svcs, order)]
    /\ hub' = [hub EXCEPT !.oldDeltas = <<>>,
                          !.svcs = [x \in DOMAIN @ |->
                                      IF x \in BoundSlots THEN [@[x] EXCEPT !.deltas = <<>>]
                                      ELSE @[x]]]
    /\ UNCHANGED <<daemon, bridge, web, bw, sock, slotVars, rl, now, hs, acc, rep>>

\* traffic of peer id through the slot svcs[sid], as its Slot.Deltas() will
\* report it: one entry per peer
SlotTraffic(sid, id) ==
    /\ sid \in DOMAIN hub.svcs
    /\ ~hub.svcs[sid].cancelled
    /\ \A i \in DOMAIN hub.svcs[sid].deltas : hub.svcs[sid].deltas[i].ID # id
    /\ hub' = [hub EXCEPT !.svcs[sid].deltas = Append(@, [ID |-> id, Rx |-> 1, Tx |-> 0])]
    /\ ret' = NoRet
    /\ UNCHANGED <<daemon, bridge, web, bw, sock, slotVars, rl, now, hs, acc, rep>>

\* ------------------------------------------------------------------- Spec
\* the SetPeers batches of Spec: peer 1 (user u1, MaxConnections 1) enabled
\* or disabled, or no peer at all
SpecOptions1 == {PeerOpt(1, UserPassword("u1", "p1"), 1, dis) : dis \in BOOLEAN}
SpecBatches == {<<>>} \cup {<<a>> : a \in SpecOptions1}

\* Spec runs one handler
RelayHandlers == {1}

NoRl == [present |-> FALSE, entries |-> [ip \in IPs |-> NoCounter],
         cleanupScheduled |-> FALSE, cleanupAt |-> 0]

\* a zero Slot (as the slot tests build it, Rl == nil) and idle handlers
Init ==
    /\ peers = <<>>
    /\ refresh = <<>>
    /\ conns = <<>>
    /\ peerMap = [k \in PeerIDs |-> Nil]
    /\ userNameMap = [u \in Users |-> Nil]
    /\ oldDeltas = <<>>
    /\ rl = NoRl
    /\ now = 1
    /\ hs = [h \in Handlers |-> HandlerIdle]
    /\ acc = [k \in PeerIDs |-> [rx |-> 0, tx |-> 0]]
    /\ rep = [k \in PeerIDs |-> [rx |-> 0, tx |-> 0]]
    /\ ret = NoRet
    /\ sock = SockClosed
    /\ hub = NewHub
    /\ bw = NoBw
    /\ web = WebIdle
    /\ bridge = NoBridge
    /\ daemon = NoDaemon

Next ==
    \/ \E b \in SpecBatches : Len(SetPeersResult(b).peers) <= MaxObjs /\ SetPeers(b)
    \/ Deltas
    \/ ClosePeerConnections
    \/ \E h \in RelayHandlers, pw \in Passwords : HLookup(h, "ip1", "u1", pw)
    \/ \E h \in RelayHandlers : HCheckDisabled(h)
    \/ \E h \in RelayHandlers : HConnect(h)
    \/ \E h \in RelayHandlers, d \in Directions : HAccount(h, d)
    \/ \E h \in RelayHandlers : HClose(h)
    \/ \E o \in 1..MaxObjs : RefreshCleanup(o)
    \/ \E o \in 1..MaxObjs : RefreshSlurp(o)
    \/ \E o \in 1..MaxObjs : RefreshExit(o)

Spec == Init /\ [][Next]_vars

\* --------------------------------------------------------------- SpecConn
\* the connection cap: two handlers on peer 1, capped at one connection
\* (MaxConnections 1) or uncapped (MaxConnections 0); no traffic
ConnBatches == {<<PeerOpt(1, UserPassword("u1", "p1"), mc, FALSE)>> : mc \in {0, 1}}

NextConn ==
    \/ \E b \in ConnBatches : Len(SetPeersResult(b).peers) <= MaxObjs /\ SetPeers(b)
    \/ \E h \in Handlers : HLookup(h, "ip1", "u1", "p1")
    \/ \E h \in Handlers : HCheckDisabled(h)
    \/ \E h \in Handlers : HConnect(h)
    \/ \E h \in Handlers : HClose(h)
    \/ \E o \in 1..MaxObjs : RefreshCleanup(o)
    \/ \E o \in 1..MaxObjs : RefreshSlurp(o)
    \/ \E o \in 1..MaxObjs : RefreshExit(o)

SpecConn == Init /\ [][NextConn]_vars

\* SpecConn with the redistributor scheduled: its ticker keeps firing and a
\* step of refresh() that can be taken is taken.  The handlers are under no
\* such condition: a client may keep its connection for ever.
RefreshFairness ==
    /\ WF_vars(\E o \in 1..MaxObjs : RefreshCleanup(o))
    /\ WF_vars(\E o \in 1..MaxObjs : RefreshSlurp(o))
    /\ WF_vars(\E o \in 1..MaxObjs : RefreshExit(o))

SpecConnFair == SpecConn /\ RefreshFairness

\* --------------------------------------------------------------- SpecAuth
\* the slot with a rate limiter (Slot.Rl set, as the services construct it)

\* a minute passes
Tick ==
    /\ now < MaxTime
    /\ now' = now + 1
    /\ ret' = NoRet
    /\ UNCHANGED <<daemon, bridge, web, bw, sock, hub, slotVars, rl, hs, acc, rep>>

\* the timer armed by RateLimiter.Get fires: RateLimiter.cleanup
CleanupFires ==
    /\ rl.present
    /\ rl.cleanupScheduled
    /\ now >= rl.cleanupAt
    /\ rl' = RlCleanup(rl, now)
    /\ ret' = NoRet
    /\ UNCHANGED <<daemon, bridge, web, bw, sock, hub, slotVars, now, hs, acc, rep>>

\* the batches of SpecAuth: peer 1 (user u1, no cap) with either password
AuthBatches == {<<PeerOpt(1, UserPassword("u1", pw), 0, FALSE)>> : pw \in Passwords}

\* what is left of the quota of ip at time t: a missing or expired counter
\* is refilled by the next Get
Remaining(r, ip, t) ==
    IF ~r.entries[ip].has \/ r.entries[ip].expires < t THEN RlQuota
    ELSE r.entries[ip].quota

InitAuth ==
    /\ peers = <<>>
    /\ refresh = <<>>
    /\ conns = <<>>
    /\ peerMap = [k \in PeerIDs |-> Nil]
    /\ userNameMap = [u \in Users |-> Nil]
    /\ oldDeltas = <<>>
    /\ rl = [NoRl EXCEPT !.present = TRUE]
    /\ now = 1
    /\ hs = [h \in Handlers |-> HandlerIdle]
    /\ acc = [k \in PeerIDs |-> [rx |-> 0, tx |-> 0]]
    /\ rep = [k \in PeerIDs |-> [rx |-> 0, tx |-> 0]]
    /\ ret = NoRet
    /\ sock = SockClosed
    /\ hub = NewHub
    /\ bw = NoBw
    /\ web = WebIdle
    /\ bridge = NoBridge
    /\ daemon = NoDaemon

NextAuth ==
    \/ \E b \in AuthBatches : Len(SetPeersResult(b).peers) <= MaxObjs /\ SetPeers(b)
    \/ \E h \in RelayHandlers, ip \in IPs, u \in Users, pw \in Passwords :
          /\ Remaining(rl, ip, now) > -MaxOver
          /\ HLookup(h, ip, u, pw)
    \/ \E h \in RelayHandlers : HCheckDisabled(h)
    \/ \E h \in RelayHandlers : HConnect(h)
    \/ \E h \in RelayHandlers : HClose(h)
    \/ \E o \in 1..MaxObjs : RefreshCleanup(o)
    \/ \E o \in 1..MaxObjs : RefreshSlurp(o)
    \/ \E o \in 1..MaxObjs : RefreshExit(o)
    \/ Tick
    \/ CleanupFires

SpecAuth == InitAuth /\ [][NextAuth]_vars

\* ------------------------------------------------------------ SpecLimiter
\* The rate limiter of a slot without peers: lookups from two addresses
\* (every one ends in RateLimiter.Get and RlCounter.Use and is refused), the
\* clock and the cleanup timer.  Requests stop after minute LastRequest.

\* the last minute in which a request arrives
LastRequest == 4

\* a minute passes, as long as a request can still arrive or the cleanup
\* timer is armed (after that nothing in the limiter waits for time); a timer
\* that is due fires before the minute is over
Elapse ==
    /\ now <= LastRequest \/ rl.cleanupScheduled
    /\ ~(rl.cleanupScheduled /\ now >= rl.cleanupAt)
    /\ now' = now + 1
    /\ ret' = NoRet
    /\ UNCHANGED <<daemon, bridge, web, bw, sock, hub, slotVars, rl, hs, acc, rep>>

NextLimiter ==
    \/ \E ip \in IPs :
          /\ now <= LastRequest
          /\ Remaining(rl, ip, now) > -MaxOver
          /\ HLookup(1, ip, "u1", "p1")
    \/ Elapse
    \/ CleanupFires

SpecLimiter == InitAuth /\ [][NextLimiter]_vars

\* time passes and an armed timer fires
LimiterFairness == WF_vars(Elapse) /\ WF_vars(CleanupFires)

SpecLimiterFair == SpecLimiter /\ LimiterFairness

\* -------------------------------------------------------------- SpecSocks
\* one SOCKS5 client at a time against a slot with a rate limiter whose
\* peer 1 (user u1, password p1, MaxConnections 1) is set, disabled or removed
\* while the client is served

\* greetings: the method lists a client sends (0x04 is not a valid method)
Greetings == {<<>>, <<0>>, <<2>>, <<0, 2>>, <<4>>}
\* protocol version bytes a client sends
Versions == {4, 5}
\* request commands: CONNECT, BIND and UDP ASSOCIATE
Commands == {1, 2, 3}
\* destination hosts: a public and a private address
Hosts == {"1.2.3.4", "10.0.0.1"}

NextSocks ==
    \/ \E b \in SpecBatches : Len(SetPeersResult(b).peers) <= MaxObjs /\ SetPeers(b)
    \/ SockAccept
    \/ \E ver \in Versions, m \in Greetings, wok \in BOOLEAN : ServeHello(ver, m, wok)
    \/ \E subver \in {1, 2}, u \in Users \cup {""}, pw \in Passwords, wok \in BOOLEAN :
          /\ Remaining(rl, "ip1", now) > -MaxOver
          /\ ServeAuth(subver, u, pw, wok)
    \/ \E ver \in Versions, cmd \in Commands, rsv \in {0, 1}, atyp \in {1, 2}, host \in Hosts,
          dok \in BOOLEAN, wok \in BOOLEAN : ServeRequest(ver, cmd, rsv, atyp, host, dok, wok)
    \/ \E wok \in BOOLEAN : CmdConnection(wok)
    \/ \E ok \in BOOLEAN, wok \in BOOLEAN : CmdDial(ok, wok)
    \/ \E wok \in BOOLEAN : CmdReplyOk(wok)
    \/ CmdBridgeDone
    \/ \E o \in 1..MaxObjs : RefreshCleanup(o)
    \/ \E o \in 1..MaxObjs : RefreshSlurp(o)
    \/ \E o \in 1..MaxObjs : RefreshExit(o)

SpecSocks == InitAuth /\ [][NextSocks]_vars

\* --------------------------------------------------------------- SpecHttp
\* one HTTP proxy request at a time against a slot with a rate limiter whose
\* peer 1 (user u1, password p1, MaxConnections 1) is set, disabled or removed
\* while the request is served

\* Proxy-Authorization values: absent, u1:p1, u1:p2 under a lower-case
\* scheme, another scheme, a token that is no base64, an empty user name, a
\* scheme without a token
AuthHeaders == {"", "Basic dTE6cDE=", "basic dTE6cDI=", "Bearer dTE6cDE=", "Basic dTE6cDE",
                "Basic OnAx", "Basic"}
Methods == {"GET", "CONNECT"}
\* how many bytes a client pipelined after its CONNECT request
TrailLens == {0, 1}

NextHttp ==
    \/ \E b \in SpecBatches : Len(SetPeersResult(b).peers) <= MaxObjs /\ SetPeers(b)
    \/ \E a \in AuthHeaders, m \in Methods, host \in Hosts :
          /\ Remaining(rl, "ip1", now) > -MaxOver
          /\ HttpServe(a, m, host)
    \/ HttpRoute
    \/ \E rok \in BOOLEAN, dok \in BOOLEAN : HttpForward(rok, dok)
    \/ HttpConnection
    \/ \E ok \in BOOLEAN : HttpDial(ok)
    \/ \E hok \in BOOLEAN, wok \in BOOLEAN : HttpTunnel(hok, wok, 0, TRUE, TRUE)
    \/ HttpBridgeDone
    \/ \E o \in 1..MaxObjs : RefreshCleanup(o)
    \/ \E o \in 1..MaxObjs : RefreshSlurp(o)
    \/ \E o \in 1..MaxObjs : RefreshExit(o)

SpecHttp == InitAuth /\ [][NextHttp]_vars

\* ------------------------------------------------------------- SpecTunnel
\* CONNECT requests of user u1 for a public destination, one at a time,
\* whose client may have pipelined a byte after the request, against the
\* slot of SpecHttp

NextTunnel ==
    \/ \E b \in SpecBatches : Len(SetPeersResult(b).peers) <= MaxObjs /\ SetPeers(b)
    \/ /\ Remaining(rl, "ip1", now) > -MaxOver
       /\ HttpServe("Basic dTE6cDE=", "CONNECT", "1.2.3.4")
    \/ HttpRoute
    \/ HttpConnection
    \/ \E ok \in BOOLEAN : HttpDial(ok)
    \/ \E hok \in BOOLEAN, wok \in BOOLEAN, trailLen \in TrailLens, pok \in BOOLEAN,
          dwok \in BOOLEAN : HttpTunnel(hok, wok, trailLen, pok, dwok)
    \/ HttpBridgeDone
    \/ \E o \in 1..MaxObjs : RefreshCleanup(o)
    \/ \E o \in 1..MaxObjs : RefreshSlurp(o)
    \/ \E o \in 1..MaxObjs : RefreshExit(o)

SpecTunnel == InitAuth /\ [][NextTunnel]_vars

\* ------------------------------------------------------------ SpecRelease
\* PeerConnections acquired and given back on the three relay paths: SOCKS5
\* CONNECT, HTTP CONNECT and the dialer of the HTTP forward mode.  One client
\* at a time, user u1 with the right password, a public destination; dials
\* and writes fail or succeed.

\* PeerDialer.DialContext, called by the transport of peer.HttpClient inside
\* Do: peer.Connection(), then peer.Dialer.DialContext (ok).  An error of
\* either makes Do fail and ServeHTTP answer 502.
ForwardDial(ok) ==
    /\ web.pc = "forward"
    /\ LET res == Connection(peers, refresh, conns, web.peer)
           w0 == [web EXCEPT !.log = Append(@, EvAcquire(res.err))]
       IN  /\ Len(res.conns) <= MaxConns
           /\ peers' = res.peers
           /\ refresh' = res.refresh
           /\ conns' = res.conns
           /\ web' = IF res.err # "" THEN WebDone(w0, 502)
                     ELSE IF ~ok
                     THEN WebDone([w0 EXCEPT !.log = Append(@, EvDial(FALSE))], 502)
                     ELSE [w0 EXCEPT !.pc = "forwarding", !.conn = res.conn,
                                     !.log = Append(@, EvDial(TRUE))]
    /\ ret' = NoRet
    /\ UNCHANGED <<daemon, bridge, bw, sock, hub, peerMap, userNameMap, oldDeltas, rl, now, hs, acc, rep>>

\* forward mode: the response is written and its body closed; the PeeredConn
\* stays with the transport as an idle connection
ForwardResponse ==
    /\ web.pc = "forwarding"
    /\ web' = [web EXCEPT !.pc = "pooled", !.status = 200,
                          !.log = Append(@, EvForward(TRUE))]
    /\ ret' = NoRet
    /\ UNCHANGED <<daemon, bridge, bw, sock, hub, slotVars, rl, now, hs, acc, rep>>

\* the transport drops its idle connection (IdleConnTimeout):
\* PeeredConn.Close() closes the PeerConnection and the stream
PeeredConnClose ==
    /\ web.pc = "pooled"
    /\ web' = [web EXCEPT !.pc = "done", !.peer = Nil, !.conn = Nil]
    /\ conns' = [conns EXCEPT ![web.conn].cancelled = TRUE]
    /\ ret' = NoRet
    /\ UNCHANGED <<daemon, bridge, bw, sock, hub, peers, refresh, peerMap, userNameMap, oldDeltas, rl, now, hs, acc, rep>>

NextRelease ==
    \/ \E b \in SpecBatches : Len(SetPeersResult(b).peers) <= MaxObjs /\ SetPeers(b)
    \/ \E m \in {"GET", "CONNECT"} :
          /\ sock.pc = "closed"
          /\ Remaining(rl, "ip1", now) > -MaxOver
          /\ HttpServe("Basic dTE6cDE=", m, "1.2.3.4")
    \/ HttpRoute
    \/ HttpForward(FALSE, FALSE)
    \/ \E ok \in BOOLEAN : ForwardDial(ok)
    \/ ForwardResponse
    \/ PeeredConnClose
    \/ HttpConnection
    \/ \E ok \in BOOLEAN : HttpDial(ok)
    \/ \E hok \in BOOLEAN, wok \in BOOLEAN : HttpTunnel(hok, wok, 0, TRUE, TRUE)
    \/ HttpBridgeDone
    \/ web.pc \in {"idle", "done"} /\ SockAccept
    \/ ServeHello(5, <<2>>, TRUE)
    \/ Remaining(rl, "ip1", now) > -MaxOver /\ ServeAuth(1, "u1", "p1", TRUE)
    \/ \E dok \in BOOLEAN : ServeRequest(5, 1, 0, 1, "1.2.3.4", dok, TRUE)
    \/ \E wok \in BOOLEAN : CmdConnection(wok)
    \/ \E ok \in BOOLEAN, wok \in BOOLEAN : CmdDial(ok, wok)
    \/ \E wok \in BOOLEAN : CmdReplyOk(wok)
    \/ CmdBridgeDone
    \/ \E o \in 1..MaxObjs : RefreshCleanup(o)
    \/ \E o \in 1..MaxObjs : RefreshSlurp(o)
    \/ \E o \in 1..MaxObjs : RefreshExit(o)

SpecRelease == InitAuth /\ [][NextRelease]_vars

\* ---------------------------------------------------------- SpecLookAlike
\* SOCKS5 sub-negotiations and HTTP requests of the users u1 and u2 with
\* either password against the slot of SpecSocks, in which u1 is known at
\* most; what follows the authentication is cut short

\* Proxy-Authorization values for the two users and the two passwords
UserHeaders == {"Basic dTE6cDE=", "Basic dTE6cDI=", "Basic dTI6cDE=", "Basic dTI6cDI="}

NextLookAlike ==
    \/ \E b \in SpecBatches : Len(SetPeersResult(b).peers) <= MaxObjs /\ SetPeers(b)
    \/ SockAccept
    \/ \E wok \in BOOLEAN : ServeHello(5, <<2>>, wok)
    \/ \E u \in Users, pw \in Passwords, wok \in BOOLEAN :
          /\ Remaining(rl, "ip1", now) > -MaxOver
          /\ ServeAuth(1, u, pw, wok)
    \/ ServeRequest(5, 2, 0, 1, "1.2.3.4", TRUE, TRUE)
    \/ \E a \in UserHeaders :
          /\ Remaining(rl, "ip1", now) > -MaxOver
          /\ HttpServe(a, "GET", "1.2.3.4")
    \/ HttpRoute
    \/ HttpForward(FALSE, FALSE)

SpecLookAlike == InitAuth /\ [][NextLookAlike]_vars

\* ------------------------------------------------------------ ServerToken
\* A string is a sequence of symbols: 0..63 are the characters of the
\* URL-safe base64 alphabet by their value, 64 is '.', 65 stands for any
\* other character but CR and LF (which the decoder skips).  A byte is
\* 0..255.
DotChar == 64

\* base64.RawURLEncoding.EncodeToString: three bytes give four characters,
\* a last group of one byte two, of two bytes three; no padding
RECURSIVE EncodeToString(_)
EncodeToString(bytes) ==
    IF Len(bytes) = 0 THEN <<>>
    ELSE IF Len(bytes) = 1
    THEN <<bytes[1] \div 4, (bytes[1] % 4) * 16>>
    ELSE IF Len(bytes) = 2
    THEN <<bytes[1] \div 4, (bytes[1] % 4) * 16 + bytes[2] \div 16, (bytes[2] % 16) * 4>>
    ELSE <<bytes[1] \div 4, (bytes[1] % 4) * 16 + bytes[2] \div 16,
           (bytes[2] % 16) * 4 + bytes[3] \div 64, bytes[3] % 64>>
         \o EncodeToString(SubSeq(bytes, 4, Len(bytes)))

\* the bytes of a string of base64 characters (no check of the characters)
RECURSIVE DecodeChars(_)
DecodeChars(chars) ==
    IF Len(chars) < 2 THEN <<>>
    ELSE IF Len(chars) = 2
    THEN <<chars[1] * 4 + chars[2] \div 16>>
    ELSE IF Len(chars) = 3
    THEN <<chars[1] * 4 + chars[2] \div 16, (chars[2] % 16) * 16 + chars[3] \div 4>>
    ELSE <<chars[1] * 4 + chars[2] \div 16, (chars[2] % 16) * 16 + chars[3] \div 4,
           (chars[3] % 4) * 64 + chars[4]>>
         \o DecodeChars(SubSeq(chars, 5, Len(chars)))

\* a decoder that skips the characters outside the alphabet
DecodeSkipping(val) ==
    LET chars == SelectSeq(val, LAMBDA ch : ch < 64)
    IN  IF Len(chars) % 4 = 1 THEN [err |-> TRUE, bytes |-> <<>>]
        ELSE [err |-> FALSE, bytes |-> DecodeChars(chars)]

\* base64.RawURLEncoding.DecodeString: [err, bytes].  A character outside
\* the alphabet and a length of 1 modulo 4 are errors; the unused low bits
\* of a last partial group are not checked.
DecodeString(val) ==
    IF \E i \in DOMAIN val : val[i] >= 64 THEN [err |-> TRUE, bytes |-> <<>>]
    ELSE IF Len(val) % 4 = 1 THEN [err |-> TRUE, bytes |-> <<>>]
    ELSE [err |-> FALSE, bytes |-> DecodeChars(val)]

\* strings.Cut(val, "."): [before, after, has], cut at the first '.'
CutDot(val) ==
    IF \E i \in DOMAIN val : val[i] = DotChar
    THEN LET i == CHOOSE k \in DOMAIN val :
                    val[k] = DotChar /\ \A j \in 1..(k - 1) : val[j] # DotChar
         IN  [before |-> SubSeq(val, 1, i - 1), after |-> SubSeq(val, i + 1, Len(val)),
              has |-> TRUE]
    ELSE [before |-> val, after |-> <<>>, has |-> FALSE]

\* ServerToken.String
TokenString(token) ==
    EncodeToString(token.ID) \o <<DotChar>> \o EncodeToString(token.SecretKey)

\* ParseServerToken: [ok, ID, SecretKey].  decodeBase gives nil for a
\* decoding error; uuid.FromBytes wants 16 bytes.
ParseServerToken(val) ==
    LET cut == CutDot(val)
        id == DecodeString(cut.before)
        key == DecodeString(cut.after)
        bad == [ok |-> FALSE, ID |-> <<>>, SecretKey |-> <<>>]
    IN  IF ~cut.has THEN bad
        ELSE IF id.err \/ Len(id.bytes) # 16 THEN bad
        ELSE IF key.err THEN bad
        ELSE [ok |-> TRUE, ID |-> id.bytes, SecretKey |-> key.bytes]

\* token.String() followed by ParseServerToken, as TestToken_1 does
TokenRoundTrip(token) ==
    /\ ret' = [op |-> "TokenRoundTrip", token |-> token, val |-> TokenString(token),
               out |-> ParseServerToken(TokenString(token))]
    /\ UNCHANGED <<daemon, bridge, web, bw, sock, hub, slotVars, rl, now, hs, acc, rep>>

\* ParseServerToken on a string from anywhere
ParseToken(val) ==
    /\ ret' = [op |-> "ParseServerToken", val |-> val, out |-> ParseServerToken(val)]
    /\ UNCHANGED <<daemon, bridge, web, bw, sock, hub, slotVars, rl, now, hs, acc, rep>>

\* -------------------------------------------------------------- SpecToken
\* tokens with a 16-byte ID and keys of up to MaxKeyLen bytes, and strings
\* made of an encoded ID or nothing followed by up to MaxTail characters

MaxKeyLen == 4
MaxTail == 3

\* bytes the IDs and keys are made of
TokenBytes == {0, 165, 255}

\* 16-byte IDs: one byte value throughout, or two alternating
TokenIDs ==
    {[i \in 1..16 |-> IF i % 2 = 0 THEN a ELSE b] : a \in TokenBytes, b \in TokenBytes}

\* sequences over S of length up to n
SeqsUpTo(S, n) == UNION {[1..k -> S] : k \in 0..n}

\* keys: up to MaxKeyLen bytes
TokenKeys == SeqsUpTo({0, 255}, MaxKeyLen)

\* the ends of the strings: base64 characters, dots and a foreign character
TokenTails == SeqsUpTo({0, 63, DotChar, 65}, MaxTail)

NextToken ==
    \/ \E id \in TokenIDs, key \in TokenKeys : TokenRoundTrip([ID |-> id, SecretKey |-> key])
    \/ \E pre \in {<<>>, EncodeToString([i \in 1..16 |-> 165])}, tail \in TokenTails :
          ParseToken(pre \o tail)

SpecToken == Init /\ [][NextToken]_vars

\* ------------------------------------------------------------ ProxyBridge
\* One call of ProxyBridge.  main is the caller's position (select, cancel,
\* wait, returned), task[d] the goroutine of direction d: copy (inside
\* SpliceConn), send (SpliceConn returned val, the send on doneCh is next),
\* done (the deferred wg.Done() is next), exited.  doneCh is the buffer of
\* the result channel (capacity 2), closed whether close(doneCh) ran, wg the
\* WaitGroup counter, ctxDone whether the connection's context is cancelled,
\* cancelled the directions whose context cancelRx/cancelTx cancelled, err
\* the named result, panicked whether a send met the closed channel.

\* cap(doneCh)
DoneChCap == 2

\* the state main() leaves alone
notDaemon == <<peers, refresh, conns, peerMap, userNameMap, oldDeltas, rl, now, hs, acc, rep,
               sock, hub, bw, web, bridge>>

\* the other fields of this module's state, which a bridge leaves alone
notBridge == <<peers, refresh, conns, peerMap, userNameMap, oldDeltas, rl, now, hs, acc, rep,
               sock, hub, bw, web, daemon>>

\* a Wait that returns at once
WaitSkipped(wg) == TRUE

\* wg.Wait() returns
WaitReturns(wg) == wg = 0

\* ProxyBridge up to the select: the contexts, doneCh, wg.Add(2) and the two
\* goroutines.  ctxDone: the connection's context was cancelled before.
ProxyBridge(ctxDone) ==
    /\ bridge.main \in {"idle", "returned"}
    /\ bridge' = [NoBridge EXCEPT !.main = "select",
                                  !.task = [d \in Directions |-> [pc |-> "copy", val |-> "nil"]],
                                  !.wg = 2,
                                  !.ctxDone = ctxDone]
    /\ ret' = NoRet
    /\ UNCHANGED notBridge

\* the connection's context is cancelled (PeerConnection.Close, or the
\* peer's or the slot's base context)
BridgeCtxCancel ==
    /\ bridge.main \in {"select", "cancel", "wait"}
    /\ ~bridge.ctxDone
    /\ bridge' = [bridge EXCEPT !.ctxDone = TRUE]
    /\ ret' = NoRet
    /\ UNCHANGED notBridge

\* SpliceConn of direction d returns: nil at the head of its loop once its
\* context is cancelled or after EOF, the error of a read or write otherwise
SpliceReturns(d, val) ==
    /\ bridge.task[d].pc = "copy"
    /\ bridge' = [bridge EXCEPT !.task[d] = [pc |-> "send", val |-> val]]
    /\ ret' = NoRet
    /\ UNCHANGED notBridge

\* doneCh <- val in the goroutine of direction d: it blocks while the buffer
\* is full and panics on a closed channel
TaskSend(d) ==
    /\ bridge.task[d].pc = "send"
    /\ IF bridge.closed
       THEN bridge' = [bridge EXCEPT !.task[d].pc = "done", !.panicked = TRUE]
       ELSE /\ Len(bridge.doneCh) < DoneChCap
            /\ bridge' = [bridge EXCEPT !.task[d].pc = "done",
                                        !.doneCh = Append(@, bridge.task[d].val)]
    /\ ret' = NoRet
    /\ UNCHANGED notBridge

\* the deferred wg.Done() of the goroutine of direction d
TaskDone(d) ==
    /\ bridge.task[d].pc = "done"
    /\ bridge' = [bridge EXCEPT !.task[d].pc = "exited", !.wg = @ - 1]
    /\ ret' = NoRet
    /\ UNCHANGED notBridge

\* select: case err = <-doneCh
SelectDone ==
    /\ bridge.main = "select"
    /\ bridge.doneCh # <<>>
    /\ bridge' = [bridge EXCEPT !.main = "cancel", !.err = Head(bridge.doneCh),
                                !.doneCh = Tail(@)]
    /\ ret' = NoRet
    /\ UNCHANGED notBridge

\* select: case <-ctx.Done()
SelectCtx ==
    /\ bridge.main = "select"
    /\ bridge.ctxDone
    /\ bridge' = [bridge EXCEPT !.main = "cancel"]
    /\ ret' = NoRet
    /\ UNCHANGED notBridge

\* cancelRx(), cancelTx() and the expired read deadlines on both streams
BridgeCancel ==
    /\ bridge.main = "cancel"
    /\ bridge' = [bridge EXCEPT !.main = "wait", !.cancelled = Directions]
    /\ ret' = NoRet
    /\ UNCHANGED notBridge

\* wg.Wait() returns, ProxyBridge returns err and the deferred
\* close(doneCh) runs
BridgeReturn ==
    /\ bridge.main = "wait"
    /\ WaitReturns(bridge.wg)
    /\ bridge' = [bridge EXCEPT !.main = "returned", !.closed = TRUE]
    /\ ret' = [op |-> "ProxyBridge", err |-> bridge.err]
    /\ UNCHANGED notBridge

\* ------------------------------------------------------------- SpecBridge
\* calls of ProxyBridge, one after the other, whose copy directions end in
\* any order with or without an error and whose context is cancelled at any
\* time

\* what SpliceConn returns
SpliceResults == {"nil", "err"}

NextBridge ==
    \/ \E ctxDone \in BOOLEAN : ProxyBridge(ctxDone)
    \/ BridgeCtxCancel
    \/ \E d \in Directions, val \in SpliceResults : SpliceReturns(d, val)
    \/ \E d \in Directions : TaskSend(d)
    \/ \E d \in Directions : TaskDone(d)
    \/ SelectDone
    \/ SelectCtx
    \/ BridgeCancel
    \/ BridgeReturn

SpecBridge == Init /\ [][NextBridge]_vars

\* -------------------------------------------------------------- SpliceConn
\* The inside of SpliceConn for direction d, in bridge.splice[d]: bandwidth
\* is the value sampled from bw() for the iteration (0: copyDirect), read and
\* rerr the result of the last src.Read, copied the bytes io.CopyN wrote so
\* far, src the bytes the source stream still has, acct the sum of the
\* values passed to the accounting callback and out the bytes the
\* destination stream accepted.  task[d].pc is copy at the head of the loop,
\* read inside src.Read, write inside dst.Write, pace inside WaitTCIO.

\* defaultChunkSize, in bytes of the model
DefaultChunkSize == 2
\* bytes a source stream delivers during one bridge
SrcBytes == 2
\* values bw() returns
Bandwidths == {0, 1, 2}

\* ctx.Err() != nil for the context of direction d
CtxErr(d) == bridge.ctxDone \/ d \in bridge.cancelled

\* both streams carry the expired read deadline
DeadlineExpired == bridge.cancelled = Directions

\* len(chunk) in copyLimit: make([]byte, bandwidth)
ChunkLen(bandwidth) == bandwidth

\* the callback given the bytes read
AccountedRead(read, written) == read

\* the value handed to acct: the bytes written
Accounted(read, written) == written

\* the locals of an iteration are gone
IterationOver(sp) == [sp EXCEPT !.bandwidth = 0, !.read = 0, !.rerr = "nil", !.copied = 0]

\* SpliceConn returns val in direction d
SpliceEnds(d, val, sp) ==
    bridge' = [bridge EXCEPT !.task[d] = [pc |-> "send", val |-> val],
                             !.splice[d] = IterationOver(sp)]

\* the iteration is over without an error: back to the head of the loop
SpliceAgain(d, sp) ==
    bridge' = [bridge EXCEPT !.task[d].pc = "copy", !.splice[d] = IterationOver(sp)]

\* the head of the loop: `for ctx.Err() == nil`, then bw() is sampled and
\* copyLimit or copyDirect entered (a new chunk, a new CopyN)
SpliceLoop(d, bandwidth) ==
    /\ bridge.task[d].pc = "copy"
    /\ IF CtxErr(d)
       THEN SpliceEnds(d, "nil", bridge.splice[d])
       ELSE bridge' = [bridge EXCEPT !.task[d].pc = "read",
                                     !.splice[d].bandwidth = bandwidth,
                                     !.splice[d].read = 0,
                                     !.splice[d].rerr = "nil",
                                     !.splice[d].copied = 0]
    /\ ret' = NoRet
    /\ UNCHANGED notBridge

\* what leaves copyDirect once io.CopyN returned err: acct(int(written)),
\* then the loop's test of err
CopyNReturns(d, err, sp) ==
    LET done == [sp EXCEPT !.acct = @ + Accounted(sp.copied, sp.copied)]
    IN  IF err = "EOF" THEN SpliceEnds(d, "nil", done)
        ELSE IF err = "nil"
        THEN SpliceAgain(d, done)
        ELSE SpliceEnds(d, "err", done)

\* src.Read returns n bytes and rerr.  With the expired deadline on the
\* stream it returns the timeout error and no byte.
ReadReturns(d, n, rerr) ==
    /\ bridge.task[d].pc = "read"
    /\ LET sp    == bridge.splice[d]
           room  == IF sp.bandwidth > 0 THEN ChunkLen(sp.bandwidth)
                    ELSE DefaultChunkSize - sp.copied
           after == [sp EXCEPT !.read = n, !.rerr = rerr, !.src = @ - n]
       IN  /\ IF DeadlineExpired THEN n = 0 /\ rerr = "err"
              ELSE n <= Min(sp.src, room)
           /\ IF n > 0
              THEN bridge' = [bridge EXCEPT !.task[d].pc = "write", !.splice[d] = after]
              ELSE IF sp.bandwidth > 0
              THEN \* copyLimit: return err
                   IF rerr = "nil"
                   THEN SpliceAgain(d, after)
                   ELSE SpliceEnds(d, IF rerr = "EOF" THEN "nil" ELSE "err", after)
              ELSE \* io.Copy inside io.CopyN: read again, or leave the loop
                   IF rerr = "nil"
                   THEN bridge' = [bridge EXCEPT !.splice[d] = after]
                   ELSE CopyNReturns(d, rerr, after)
    /\ ret' = NoRet
    /\ UNCHANGED notBridge

\* dst.Write(chunk[:read]) returns w and werr
WriteReturns(d, w, werr) ==
    /\ bridge.task[d].pc = "write"
    /\ LET sp == bridge.splice[d]
       IN  /\ w <= sp.read
           /\ IF sp.bandwidth > 0
              THEN \* copyLimit: acct(written), the error or the short write,
                   \* or the pacer
                   LET after == [sp EXCEPT !.out = @ + w,
                                           !.acct = @ + Accounted(sp.read, w)]
                   IN  IF werr # "nil" \/ w < sp.read
                       THEN SpliceEnds(d, "err", after)
                       ELSE bridge' = [bridge EXCEPT !.task[d].pc = "pace",
                                                     !.splice[d] = after]
              ELSE \* io.Copy: written += nw; a write error, a short write
                   \* and a read error end io.CopyN, which returns nil
                   \* once the whole chunk was written
                   LET after == [sp EXCEPT !.out = @ + w, !.copied = @ + w]
                   IN  IF werr # "nil" \/ w < sp.read
                       THEN IF after.copied = DefaultChunkSize
                            THEN CopyNReturns(d, "nil", after)
                            ELSE CopyNReturns(d, "err", after)
                       ELSE IF after.copied = DefaultChunkSize
                       THEN CopyNReturns(d, "nil", after)
                       ELSE IF sp.rerr # "nil"
                       THEN CopyNReturns(d, sp.rerr, after)
                       ELSE bridge' = [bridge EXCEPT !.task[d].pc = "read",
                                                     !.splice[d] = after]
    /\ ret' = NoRet
    /\ UNCHANGED notBridge

\* the sleep of WaitTCIO is over and copyLimit returns the read's err
PaceDone(d) ==
    /\ bridge.task[d].pc = "pace"
    /\ LET sp == bridge.splice[d]
       IN  IF sp.rerr = "nil"
           THEN SpliceAgain(d, sp)
           ELSE SpliceEnds(d, IF sp.rerr = "EOF" THEN "nil" ELSE "err", sp)
    /\ ret' = NoRet
    /\ UNCHANGED notBridge

\* ProxyBridge on two streams that hold SrcBytes bytes each
ProxyBridgeStreams(ctxDone) ==
    /\ bridge.main \in {"idle", "returned"}
    /\ bridge' = [NoBridge EXCEPT !.main = "select",
                                  !.task = [d \in Directions |-> [pc |-> "copy", val |-> "nil"]],
                                  !.wg = 2,
                                  !.ctxDone = ctxDone,
                                  !.splice = [d \in Directions |->
                                                 [NoBridge.splice[d] EXCEPT !.src = SrcBytes]]]
    /\ ret' = NoRet
    /\ UNCHANGED notBridge

\* ------------------------------------------------------------- SpecSplice
\* one call of ProxyBridge with both directions inside SpliceConn

ReadErrs == {"nil", "EOF", "err"}
WriteErrs == {"nil", "err"}

NextSplice ==
    \/ \E ctxDone \in BOOLEAN : ProxyBridgeStreams(ctxDone)
    \/ BridgeCtxCancel
    \/ \E d \in Directions, b \in Bandwidths : SpliceLoop(d, b)
    \/ \E d \in Directions, n \in 0..SrcBytes, e \in ReadErrs : ReadReturns(d, n, e)
    \/ \E d \in Directions, w \in 0..SrcBytes, e \in WriteErrs : WriteReturns(d, w, e)
    \/ \E d \in Directions : PaceDone(d)
    \/ \E d \in Directions : TaskSend(d)
    \/ \E d \in Directions : TaskDone(d)
    \/ SelectDone
    \/ SelectCtx
    \/ BridgeCancel
    \/ BridgeReturn

SpecSplice == Init /\ [][NextSplice]_vars

\* Every step the code takes by itself is taken: the goroutines run, the
\* sleep of the pacer ends, and a read on a stream whose read deadline
\* expired returns.  A read without a deadline and a write wait for the
\* other end of the stream and need not return.
SpliceFairness ==
    /\ \A d \in Directions :
          /\ WF_vars(\E b \in Bandwidths : SpliceLoop(d, b))
          /\ WF_vars(DeadlineExpired /\ ReadReturns(d, 0, "err"))
          /\ WF_vars(PaceDone(d))
          /\ WF_vars(TaskSend(d))
          /\ WF_vars(TaskDone(d))
    /\ WF_vars(SelectDone)
    /\ WF_vars(SelectCtx)
    /\ WF_vars(BridgeCancel)
    /\ WF_vars(BridgeReturn)

SpecSpliceFair == SpecSplice /\ SpliceFairness

\* ------------------------------------------------------- the DNS provider
\* hub.dns is the dnsProvider every slot holds by reference (&hub.dns);
\* daemon.dns is its resolver, named by the server address it was made for
\* ("<nil>": no resolver, the dialer falls back to the system's).
\* daemon.dialers holds peer.Dialer.Resolver of every peer of a slot and
\* daemon.dial the last destination dial: the peer and the resolver it used.

\* DNS server addresses of a configuration: none, two servers, one that
\* NewDnsResolver rejects
DnsAddrs == {"", "8.8.8.8", "9.9.9.9", "nowhere"}

\* NewDnsResolver(addr): the resolver, or an error for an unknown or a
\* silent server
NewDnsResolver(addr) ==
    IF addr = "nowhere" THEN [err |-> TRUE, resolver |-> "<nil>"]
    ELSE [err |-> FALSE, resolver |-> addr]

\* ServiceHub.SetDns
SetDns(addr) ==
    /\ LET res == NewDnsResolver(addr)
       IN  daemon' = [daemon EXCEPT !.dns = IF addr = "" THEN "<nil>"
                                            ELSE IF res.err THEN @
                                            ELSE res.resolver]
    /\ ret' = NoRet
    /\ UNCHANGED notDaemon

\* the resolver peer.Dialer.DialContext uses: the Resolver field of the
\* net.Dialer value
DialerResolver(dialer) == dialer.Resolver

\* Slot.SetPeers as far as the dialers go: a peer of the batch that the slot
\* has keeps its Dialer (its LocalAddr is set again, its Resolver is left), a
\* new peer gets a Dialer with Resolver: slot.DNS.Resolver(), a peer that is
\* not in the batch goes
SetPeersDialers(ids) ==
    /\ daemon' = [daemon EXCEPT !.dialers =
                     [id \in ids |-> IF id \in DOMAIN daemon.dialers
                                     THEN daemon.dialers[id]
                                     ELSE [Resolver |-> daemon.dns]]]
    /\ ret' = NoRet
    /\ UNCHANGED notDaemon

\* cmdConnect / ServeHTTP: peer.Dialer.DialContext(ctx, "tcp", host)
PeerDial(id) ==
    /\ id \in DOMAIN daemon.dialers
    /\ daemon' = [daemon EXCEPT !.dial =
                     [peer |-> id,
                      resolver |-> DialerResolver(daemon.dialers[id])]]
    /\ ret' = NoRet
    /\ UNCHANGED notDaemon

\* ---------------------------------------------------------------- SpecDns
\* configurations with any DNS address and any set of peers, and dials
NextDns ==
    \/ \E addr \in DnsAddrs : SetDns(addr)
    \/ \E ids \in SUBSET PeerIDs : SetPeersDialers(ids)
    \/ \E id \in PeerIDs : PeerDial(id)

SpecDns == Init /\ [][NextDns]_vars

\* ------------------------------------------------------- the status task
\* main() around the hub: deltasQueue in daemon.queue, the goroutine of the
\* status task in daemon.status (select: waiting for its ticker or doneCh,
\* push and final: inside doStatusPush after hub.Deltas(), exited),
\* daemon.fresh the newDeltas of the push under way, daemon.doneCh whether
\* doneCh is closed and daemon.main the main goroutine (run, closing: before
\* hub.CloseSlots(), wait: in wg.Wait(), stopped).  History: daemon.drained
\* is every delta hub.Deltas() handed out, daemon.pushed the Deltas of the
\* statuses the backend accepted, in order.

\* a failed push that forgets its deltas
QueueDropped(queue, newDeltas) == queue

\* doStatusPush after a failed PostStatus:
\* deltasQueue = append(deltasQueue, newDeltas...)
QueueAfterFailure(queue, newDeltas) == queue \o newDeltas

\* doStatusPush up to the request: newDeltas := hub.Deltas(), in the loop of
\* the status task on a tick, or on doneCh (final)
StatusDrain(final) ==
    /\ daemon.status = "select"
    /\ final => daemon.doneCh
    /\ \E order \in MapOrders(hub.bindMap) :
          LET newDeltas == hub.oldDeltas \o SlotDeltaList(hub.svcs, order)
          IN  daemon' = [daemon EXCEPT !.status = IF final THEN "final" ELSE "push",
                                       !.fresh = newDeltas,
                                       !.drained = @ \o newDeltas]
    /\ hub' = [hub EXCEPT !.oldDeltas = <<>>,
                          !.svcs = [x \in DOMAIN @ |->
                                      IF x \in BoundSlots THEN [@[x] EXCEPT !.deltas = <<>>]
                                      ELSE @[x]]]
    /\ ret' = NoRet
    /\ UNCHANGED <<bridge, web, bw, sock, slotVars, rl, now, hs, acc, rep>>

\* the rest of doStatusPush: hub.SlotInfo(), client.PostStatus(&metrics)
\* with Deltas: append(deltasQueue, newDeltas...), and the queue kept or
\* emptied; after the final push the task returns
StatusPost(ok) ==
    /\ daemon.status \in {"push", "final"}
    /\ LET metrics == daemon.queue \o daemon.fresh
       IN  /\ daemon' = [daemon EXCEPT
                  !.status = IF daemon.status = "final" THEN "exited" ELSE "select",
                  !.fresh = <<>>,
                  !.queue = IF ok THEN <<>> ELSE QueueAfterFailure(daemon.queue, daemon.fresh),
                  !.pushed = IF ok THEN @ \o metrics ELSE @]
           /\ ret' = [op |-> "PostStatus", ok |-> ok, Deltas |-> metrics,
                      queued |-> Len(daemon.queue)]
    /\ hub' = [hub EXCEPT !.errSlots = <<>>]
    /\ UNCHANGED <<bridge, web, bw, sock, slotVars, rl, now, hs, acc, rep>>

\* the exit signal arrives: close(doneCh)
ExitSignal ==
    /\ daemon.main = "run"
    /\ daemon' = [daemon EXCEPT !.main = "closing", !.doneCh = TRUE]
    /\ ret' = NoRet
    /\ UNCHANGED notDaemon

\* main: hub.CloseSlots()
MainCloseSlots(closeOut) ==
    /\ daemon.main = "closing"
    /\ daemon' = [daemon EXCEPT !.main = "wait"]
    /\ hub' = CloseSlotsResult(closeOut)
    /\ ret' = NoRet
    /\ UNCHANGED <<bridge, web, bw, sock, slotVars, rl, now, hs, acc, rep>>

\* main: wg.Wait() returns once the tasks have returned
MainStopped ==
    /\ daemon.main = "wait"
    /\ daemon.status = "exited"
    /\ daemon' = [daemon EXCEPT !.main = "stopped"]
    /\ ret' = NoRet
    /\ UNCHANGED notDaemon

\* ---------------------------------------------------------------- SpecHub
\* the hub driven by configuration pulls and the shutdown

\* slot services alive at a time: held by bindMap or listening
MaxSvcs == 2

\* the entries the configurations are made of: two slot IDs on one address
\* written in two ways, a port left to the system, and invalid entries
HubEntries ==
    { SlotOpt(1, "socks", "1.1.1.1:80"),
      SlotOpt(2, "socks", "1.1.1.1:080"),
      SlotOpt(2, "http", "1.1.1.1:80"),
      SlotOpt(1, "socks", "1.1.1.1:0"),
      SlotOpt(2, "socks", "1.1.1.1:0"),
      SlotOpt(Nil, "socks", "1.1.1.1:80"),
      SlotOpt(1, "ftp", "1.1.1.1:80"),
      SlotOpt(2, "socks", "localhost:80") }

HubBatches == {<<>>} \cup {<<a>> : a \in HubEntries}
                     \cup {<<a, b>> : a \in HubEntries, b \in HubEntries}

NextHub ==
    \/ \E b \in HubBatches :
          \E lok \in BOOLEAN, closeOut \in [BoundSlots -> CloseOutcomes] :
              /\ SetServices(b, lok, closeOut)
              /\ Len(hub'.svcs) <= MaxSvcs
    \/ \E closeOut \in [BoundSlots -> CloseOutcomes] : CloseSlots(closeOut)
    \/ SlotInfo

SpecHub == Init /\ [][NextHub]_vars

\* ---------------------------------------------------------- SpecHubDeltas
\* the hub with traffic on its slots and report pulls: configurations that
\* keep, replace (Proto changed on the same address) and drop slots

\* delta entries held by the hub and its slots together
MaxHubDeltas == 2

DeltaEntries ==
    { SlotOpt(1, "socks", "1.1.1.1:80"),
      SlotOpt(2, "http", "1.1.1.1:80"),
      SlotOpt(1, "socks", "1.1.1.1:0") }

DeltaBatches == {<<>>} \cup {<<a>> : a \in DeltaEntries}
                       \cup {<<a, b>> : a \in DeltaEntries, b \in DeltaEntries}

\* delta entries not yet pulled
HubPending == Len(hub.oldDeltas) + Len(SlotDeltaList(hub.svcs, [i \in DOMAIN hub.svcs |-> i]))

NextHubDeltas ==
    \/ \E b \in DeltaBatches :
          \E lok \in BOOLEAN, closeOut \in [BoundSlots -> CloseOutcomes] :
              /\ SetServicesLogged(b, lok, closeOut)
              /\ Len(hub'.svcs) <= MaxSvcs
    \/ \E closeOut \in [BoundSlots -> CloseOutcomes] : CloseSlots(closeOut)
    \/ HubDeltas
    \/ \E sid \in 1..MaxSvcs, id \in PeerIDs : HubPending < MaxHubDeltas /\ SlotTraffic(sid, id)

SpecHubDeltas == Init /\ [][NextHubDeltas]_vars

\* ------------------------------------------------------------- SpecDaemon
\* the node from its first configuration to its exit: configurations with
\* one slot or none, traffic on the slot, status pushes that fail or
\* succeed, the exit signal at any time

\* deltas the slots produce during a run
MaxDrained == 3

DaemonBatches == {<<>>, <<SlotOpt(1, "socks", "1.1.1.1:80")>>}

NextDaemon ==
    \/ \E b \in DaemonBatches :
          \E lok \in BOOLEAN, closeOut \in [BoundSlots -> CloseOutcomes] :
              /\ ~daemon.doneCh
              /\ SetServicesLogged(b, lok, closeOut)
              /\ Len(hub'.svcs) <= MaxSvcs
    \/ \E sid \in 1..MaxSvcs, id \in PeerIDs :
          /\ Len(daemon.drained) + HubPending < MaxDrained
          /\ SlotTraffic(sid, id)
    \/ \E final \in BOOLEAN : StatusDrain(final)
    \/ \E ok \in BOOLEAN : StatusPost(ok)
    \/ ExitSignal
    \/ \E closeOut \in [BoundSlots -> CloseOutcomes] : MainCloseSlots(closeOut)
    \/ MainStopped

SpecDaemon == Init /\ [][NextDaemon]_vars

\* ------------------------------------------------------------- SpecHubErr
\* the hub fed configurations with invalid entries, and the status pulls

\* a valid entry for each of two slot IDs, and entries with a nil ID, an
\* unknown Proto and a bind address that is not a literal ip:port
ErrEntries ==
    { SlotOpt(1, "socks", "1.1.1.1:80"),
      SlotOpt(2, "http", "1.1.1.1:0"),
      SlotOpt(Nil, "socks", "1.1.1.1:80"),
      SlotOpt(2, "ftp", "1.1.1.1:80"),
      SlotOpt(2, "socks", "localhost:80") }

ErrBatches == {<<>>} \cup {<<a>> : a \in ErrEntries}
                     \cup {<<a, b>> : a \in ErrEntries, b \in ErrEntries}

NextHubErr ==
    \/ \E b \in ErrBatches :
          \E lok \in BOOLEAN, closeOut \in [BoundSlots -> CloseOutcomes] :
              /\ SetServicesLogged(b, lok, closeOut)
              /\ Len(hub'.svcs) <= MaxSvcs
    \/ SlotInfo

SpecHubErr == Init /\ [][NextHubErr]_vars

\* --------------------------------------------------------------- SpecSlot
\* The slot driven by one sequential caller, as the slot and peer tests
\* drive it (LookupWithPassword, then peer.Connection(), AccountRx/AccountTx
\* and Close on the connections it holds), with the redistributors running.

\* peer, err := slot.LookupWithPassword(...); conn, err := peer.Connection()
CallConnection(username, password) ==
    LET lk == LookupWithPassword(rl, userNameMap, peers, "ip1", username, password, now)
    IN  /\ lk.err = ""
        /\ LET res == Connection(peers, refresh, conns, lk.peer)
           IN  /\ Len(res.conns) <= MaxConns
               /\ peers' = res.peers
               /\ refresh' = res.refresh
               /\ conns' = res.conns
        /\ rl' = lk.rl
        /\ ret' = NoRet
        /\ UNCHANGED <<daemon, bridge, web, bw, sock, hub, peerMap, userNameMap, oldDeltas, now, hs, acc, rep>>

\* conn.AccountRx(1) / conn.AccountTx(1) on a connection the caller holds open
ConnAccount(c, dir) ==
    /\ c \in DOMAIN conns
    /\ ~conns[c].cancelled
    /\ TotalAccounted < MaxBytes
    /\ LET id == peers[conns[c].peer].opts.ID
       IN  /\ conns' = [conns EXCEPT ![c].deltaRx = IF dir = "rx" THEN @ + 1 ELSE @,
                                     ![c].deltaTx = IF dir = "tx" THEN @ + 1 ELSE @]
           /\ acc' = [acc EXCEPT ![id].rx = IF dir = "rx" THEN @ + 1 ELSE @,
                                 ![id].tx = IF dir = "tx" THEN @ + 1 ELSE @]
    /\ ret' = NoRet
    /\ UNCHANGED <<daemon, bridge, web, bw, sock, hub, peers, refresh, peerMap, userNameMap, oldDeltas, rl, now, hs, rep>>

\* conn.Close() by the caller
ConnClose(c) ==
    /\ c \in DOMAIN conns
    /\ ~conns[c].cancelled
    /\ conns' = [conns EXCEPT ![c].cancelled = TRUE]
    /\ ret' = NoRet
    /\ UNCHANGED <<daemon, bridge, web, bw, sock, hub, peers, refresh, peerMap, userNameMap, oldDeltas, rl, now, hs, acc, rep>>

\* the batches of SpecSlot: peer 1 (user u1) alone or with peer 2 (user u2,
\* either password); no caps
SlotOption(k, password) ==
    PeerOpt(k, UserPassword(IF k = 1 THEN "u1" ELSE "u2", password), 0, FALSE)
SlotBatches ==
    {<<SlotOption(1, "p1")>>} \cup {<<SlotOption(1, "p1"), SlotOption(2, pw)>> : pw \in Passwords}

\* the traffic of SpecSlot: the first connection only receives, the others
\* only send
SlotDirection(c) == IF c = 1 THEN "rx" ELSE "tx"

NextSlot ==
    \/ \E b \in SlotBatches : Len(SetPeersResult(b).peers) <= SlotObjs /\ SetPeers(b)
    \/ Deltas
    \/ \E u \in Users, pw \in Passwords : CallConnection(u, pw)
    \/ \E c \in 1..MaxConns : ConnAccount(c, SlotDirection(c))
    \/ \E c \in 1..MaxConns : ConnClose(c)
    \/ \E o \in 1..SlotObjs : RefreshCleanup(o)
    \/ \E o \in 1..SlotObjs : RefreshSlurp(o)
    \/ \E o \in 1..SlotObjs : RefreshExit(o)

SpecSlot == Init /\ [][NextSlot]_vars

\* -------------------------------------------------------------- SpecPeers
\* reconciliation against batches with nil and repeated IDs, missing
\* PasswordAuth and repeated user names, on a slot whose peers hold
\* connections; the caller looks at the slot after each SetPeers
PeerEntries ==
    { PeerOpt(Nil, UserPassword("u1", "p1"), 0, FALSE),
      PeerOpt(1, NoAuth, 0, FALSE),
      PeerOpt(1, UserPassword("u1", "p1"), 0, FALSE),
      PeerOpt(1, UserPassword("u2", "p1"), 0, FALSE),
      PeerOpt(2, UserPassword("u1", "p1"), 0, FALSE),
      PeerOpt(2, UserPassword("u2", "p1"), 0, FALSE) }

PeerBatches == UNION {[1..n -> PeerEntries] : n \in 0..MaxBatch}

\* the caller of SetPeers is done with the batch
SetPeersReturn ==
    /\ ret.op = "SetPeers"
    /\ ret' = NoRet
    /\ UNCHANGED <<daemon, bridge, web, bw, sock, hub, slotVars, rl, now, hs, acc, rep>>

NextPeers ==
    \/ \E b \in PeerBatches :
          /\ ret = NoRet
          /\ SetPeersOf(b)
          /\ Len(peers') <= SlotObjs
    \/ SetPeersReturn
    \/ \E u \in Users, pw \in Passwords : ret = NoRet /\ CallConnection(u, pw)
    \/ \E c \in 1..MaxConns : ret = NoRet /\ ConnClose(c)

SpecPeers == Init /\ [][NextPeers]_vars

\* ------------------------------------------------------------- SpecFramed
\* peer 1 re-imported with another framed ip, password or Disabled flag
\* while the caller holds connections of it that carried traffic

\* framed ips of the entries: none, two addresses of the host, an address
\* that is not assigned to the host
FramedIPs == {"", "192.0.2.1", "192.0.2.2", "203.0.113.9"}

FramedBatches ==
    {<<PeerOptFramed(1, UserPassword("u1", pw), 0, dis, ip)>> :
        pw \in Passwords, dis \in BOOLEAN, ip \in FramedIPs}

NextFramed ==
    \/ \E b \in FramedBatches :
          /\ ret = NoRet
          /\ SetPeersFrom(b)
          /\ Len(peers') <= MaxObjs
    \/ SetPeersReturn
    \/ \E u \in Users, pw \in Passwords : ret = NoRet /\ CallConnection(u, pw)
    \/ \E c \in 1..MaxConns, d \in Directions : ret = NoRet /\ ConnAccount(c, d)
    \/ \E c \in 1..MaxConns : ret = NoRet /\ ConnClose(c)

SpecFramed == Init /\ [][NextFramed]_vars

\* ------------------------------------------------------------- SpecUpdate
\* the hub re-importing one SOCKS5 service entry, under either slot ID, with
\* its peer list, while a caller holds connections of the slot's peer.  The
\* slot variables are those of the slot bound to 1.1.1.1:80: the key is in
\* every configuration, so the slot is created once, from the zero Slot, and
\* updated in place ever after.

UpdateEntries == {SlotOpt(id, "socks", "1.1.1.1:80") : id \in {1, 2}}

UpdateBatches ==
    {<<PeerOptFramed(1, UserPassword("u1", pw), 0, dis, ip)>> :
        pw \in Passwords, dis \in BOOLEAN, ip \in {"", "192.0.2.1"}}

\* SetServices(<<entry>>) where entry.Peers = entries: slot.SetPeers runs on
\* the slot that was updated (service_hub.go:105) or created (line 160)
SetServicesPeers(entry, entries, lok) ==
    LET st == SetServicesRun(<<entry>>, lok, [x \in BoundSlots |-> "ok"])
        key == ServiceBindAddr(entry.BindAddr, entry.Proto).key
        applied == \E msg \in {"Update slot", "Create slot", "Replace slot"} :
                       LogLine(msg, key) \in st.log
        sp == SetPeersResult(entries)
    IN  /\ hub' = HubAfter(st)
        /\ IF applied
           THEN /\ peers' = sp.peers
                /\ refresh' = sp.refresh
                /\ conns' = sp.conns
                /\ oldDeltas' = sp.oldDeltas
                /\ peerMap' = sp.new
                /\ userNameMap' = RemapUserNames(sp)
           ELSE UNCHANGED slotVars
        /\ ret' = [op |-> "SetServices", log |-> st.log, entry |-> entry,
                   entries |-> entries]
        /\ UNCHANGED <<daemon, bridge, web, bw, sock, rl, now, hs, acc, rep>>

NextUpdate ==
    \/ \E entry \in UpdateEntries, b \in UpdateBatches, lok \in BOOLEAN :
          /\ SetServicesPeers(entry, b, lok)
          /\ Len(peers') <= MaxObjs
    \/ \E u \in Users, pw \in Passwords : BoundSlots # {} /\ CallConnection(u, pw)
    \/ \E c \in 1..MaxConns : ConnClose(c)

SpecUpdate == Init /\ [][NextUpdate]_vars

\* --------------------------------------------------------------- SpecBand
\* RedistributePeerBandwidth and the base caps of Peer.Connection, applied
\* to one peer whose PeerBandwidth is drawn at the start.

MaxBwConns == 6
MaxElapsed == 2

\* no caps; the quota of the bandwidth tests; a quota without a minimum
BwConfigs == {PeerBandwidth(0, 0, 0, 0),
              PeerBandwidth(10000, 10000, 1000, 1000),
              PeerBandwidth(3000, 1000, 0, 0)}

\* the <<rx, tx>> volumes a connection carries between two passes
BwProfiles == {<<500, 100>>, <<2000, 1600>>}

\* The list a pass walks comes out of a map, in no particular order, and the
\* pass treats every position alike: traffic is enumerated with the heavier
\* connections first.
BwOrdered(c, rx, tx) ==
    /\ c \in DOMAIN bw.conns
    /\ IF c = 1 THEN TRUE
       ELSE bw.conns[c - 1].deltaRx >= rx /\ bw.conns[c - 1].deltaTx >= tx

InitBand ==
    /\ peers = <<>>
    /\ refresh = <<>>
    /\ conns = <<>>
    /\ peerMap = [k \in PeerIDs |-> Nil]
    /\ userNameMap = [u \in Users |-> Nil]
    /\ oldDeltas = <<>>
    /\ rl = NoRl
    /\ now = 1
    /\ hs = [h \in Handlers |-> HandlerIdle]
    /\ acc = [k \in PeerIDs |-> [rx |-> 0, tx |-> 0]]
    /\ rep = [k \in PeerIDs |-> [rx |-> 0, tx |-> 0]]
    /\ ret = NoRet
    /\ sock = SockClosed
    /\ hub = NewHub
    /\ \E b \in BwConfigs : bw = [NoBw EXCEPT !.Bandwidth = b]
    /\ web = WebIdle
    /\ bridge = NoBridge
    /\ daemon = NoDaemon

NextBand ==
    \/ (Len(bw.conns) < MaxBwConns /\ BwConnection)
    \/ \E c \in 1..MaxBwConns, p \in BwProfiles :
          BwOrdered(c, p[1], p[2]) /\ BwAccount(c, p[1], p[2])
    \/ BwWait(MaxElapsed)
    \/ BwRefresh

SpecBand == InitBand /\ [][NextBand]_vars

\* ----------------------------------------------------------------- claims
\* C1: a peer with MaxConnections = M > 0 never holds more than M
\* connections in its connection map, so the (M+1)-th acquisition with none
\* closed in between fails with ErrTooManyConnections.
C1_ConnMapWithinCap ==
    \A o \in DOMAIN peers :
        peers[o].opts.MaxConnections > 0 =>
            Cardinality(peers[o].connMap) <= peers[o].opts.MaxConnections

\* every handler has left the bridge, every connection was swept from its
\* peer's map, no redistributor is between connCleanup and slurpDeltas, and
\* the last call was Deltas()
AllSettled ==
    /\ \A h \in Handlers : hs[h].pc # "relay"
    /\ \A o \in DOMAIN peers :
          /\ peers[o].connMap = {}
          /\ refresh[o].pc \in {"off", "wait"}
    /\ ret.op = "Deltas"

\* C2: no accounted byte is lost: once all relays have stopped and a final
\* Deltas() has run, the Rx and Tx reported for a peer over all Deltas()
\* results are not less than the Rx and Tx accounted on its connections.
C2_NoByteLost ==
    AllSettled =>
        \A k \in PeerIDs : rep[k].rx >= acc[k].rx /\ rep[k].tx >= acc[k].tx

\* C3: no byte is reported twice: the cumulative Rx/Tx reported for a peer
\* never exceeds the cumulative Rx/Tx accounted on its connections.
C3_NoByteTwice ==
    \A k \in PeerIDs : rep[k].rx <= acc[k].rx /\ rep[k].tx <= acc[k].tx

\* what the slot holds unreported for peer ID k: its deferred deltas and
\* the counter of its peer in the map
SlotUnreported(k, f) ==
    SumField(oldDeltas, k, f, 1)
    + (IF peerMap[k] = Nil THEN 0
       ELSE IF f = "Rx" THEN peers[peerMap[k]].DeltaRx ELSE peers[peerMap[k]].DeltaTx)

\* what peer object o and the connections of its map hold unreported
PeerUnreported(o, f) ==
    IF f = "Rx" THEN peers[o].DeltaRx + SumOver(conns, peers[o].connMap, "deltaRx")
    ELSE peers[o].DeltaTx + SumOver(conns, peers[o].connMap, "deltaTx")

\* C4: peer replacement preserves bytes.  A SetPeers step that drops peer k
\* adds the full (rx,tx) of the dropped peer (its counters and those of its
\* connections, open or closed) to the slot's deferred deltas; deferred
\* deltas are taken away by Deltas() only; and Deltas() returns exactly one
\* entry per peer ID with non-zero unreported traffic, carrying the deferred
\* deltas of that ID plus the counters of its peer in the map, and empties
\* the deferred deltas.
C4_ReplacementPreservesBytes ==
    [][ /\ \A k \in PeerIDs :
              (peerMap[k] # Nil /\ peerMap'[k] = Nil) =>
                  \A f \in {"Rx", "Tx"} :
                      SumField(oldDeltas', k, f, 1)
                          = SumField(oldDeltas, k, f, 1) + PeerUnreported(peerMap[k], f)
        /\ ~Deltas =>
              /\ Len(oldDeltas') >= Len(oldDeltas)
              /\ SubSeq(oldDeltas', 1, Len(oldDeltas)) = oldDeltas
        /\ Deltas =>
              LET ids == {k \in PeerIDs : SlotUnreported(k, "Rx") > 0
                                          \/ SlotUnreported(k, "Tx") > 0}
              IN  /\ oldDeltas' = <<>>
                  /\ Len(ret'.out) = Cardinality(ids)
                  /\ \A k \in ids :
                        \E i \in DOMAIN ret'.out :
                            ret'.out[i] = [ID |-> k, Rx |-> SlotUnreported(k, "Rx"),
                                           Tx |-> SlotUnreported(k, "Tx")]
      ]_vars

\* Deltas() has just returned two entries, one for the dropped peer 2 and
\* one for the surviving peer 1
C4_Witness ==
    /\ ret.op = "Deltas"
    /\ Len(ret.out) = 2
    /\ peerMap[1] # Nil
    /\ peerMap[2] = Nil
    /\ \E i \in DOMAIN peers : peers[i].opts.ID = 2

\* C5: a peer of the slot whose Disabled flag is set (SetPeers has
\* returned) has no live, uncancelled PeerConnection.
C5_DisabledHasNoLiveConn ==
    \A k \in PeerIDs :
        (peerMap[k] # Nil /\ peers[peerMap[k]].opts.Disabled) =>
            \A c \in DOMAIN conns : conns[c].peer = peerMap[k] => conns[c].cancelled

\* SetPeers has just updated peer k (same Peer object) with another password
PasswordChanged(k) ==
    /\ peerMap[k] # Nil
    /\ peerMap'[k] = peerMap[k]
    /\ peers[peerMap[k]].opts.PasswordAuth # NoAuth
    /\ peers'[peerMap[k]].opts.PasswordAuth # NoAuth
    /\ AuthPassword(peers'[peerMap[k]].opts.PasswordAuth)
          # AuthPassword(peers[peerMap[k]].opts.PasswordAuth)

\* the result of the next LookupWithPassword, made in the state after the step
NextLookup(ip, username, password) ==
    LookupWithPassword(rl', userNameMap', peers', ip, username, password, now')

\* C6 as stated: after SetPeers updates an existing peer with a different
\* password, every PeerConnection of the peer that was open before the call
\* is cancelled, the next LookupWithPassword with the old password fails
\* with a credentials error and the one with the new password succeeds and
\* returns that peer.
C6_AsStated ==
    [][ \A k \in PeerIDs : PasswordChanged(k) =>
          LET o == peerMap[k]
              user == AuthUser(peers'[o].opts.PasswordAuth)
              oldpw == AuthPassword(peers[o].opts.PasswordAuth)
              newpw == AuthPassword(peers'[o].opts.PasswordAuth)
          IN  /\ \A c \in DOMAIN conns : conns[c].peer = o => conns'[c].cancelled
              /\ \A ip \in IPs :
                    /\ NextLookup(ip, user, oldpw).err = "CredentialsError"
                    /\ NextLookup(ip, user, newpw).err = ""
                    /\ NextLookup(ip, user, newpw).peer = o
      ]_vars

\* C6, amended: the same, for a caller the rate limiter does not refuse; a
\* caller whose quota is used up gets the rate-limit error for the old and
\* for the new password.
C6_CredentialsChanged ==
    [][ \A k \in PeerIDs : PasswordChanged(k) =>
          LET o == peerMap[k]
              user == AuthUser(peers'[o].opts.PasswordAuth)
              oldpw == AuthPassword(peers[o].opts.PasswordAuth)
              newpw == AuthPassword(peers'[o].opts.PasswordAuth)
          IN  /\ \A c \in DOMAIN conns : conns[c].peer = o => conns'[c].cancelled
              /\ \A ip \in IPs :
                    IF Remaining(rl', ip, now') > 0
                    THEN /\ NextLookup(ip, user, oldpw).err = "CredentialsError"
                         /\ NextLookup(ip, user, newpw).err = ""
                         /\ NextLookup(ip, user, newpw).peer = o
                    ELSE /\ NextLookup(ip, user, oldpw).err = "RateLimitError"
                         /\ NextLookup(ip, user, newpw).err = "RateLimitError"
      ]_vars

\* a handler is still in the bridge on a connection that SetPeers cancelled
\* when it changed the password of the peer to p2
C6_Witness ==
    \E h \in Handlers :
        /\ hs[h].pc = "relay"
        /\ conns[hs[h].conn].cancelled
        /\ peerMap[1] = conns[hs[h].conn].peer
        /\ AuthPassword(peers[peerMap[1]].opts.PasswordAuth) = "p2"

\* the credentials username/password are not those of a peer of the slot
Rejected(username, password) ==
    \/ userNameMap[username] = Nil
    \/ peers[userNameMap[username]].opts.PasswordAuth = NoAuth
    \/ AuthPassword(peers[userNameMap[username]].opts.PasswordAuth) # password

\* C8: rate-limited authentication per client IP, with quota RlQuota > 0.
\* A LookupWithPassword call from ip that finds r >= 1 left of the quota is
\* evaluated (the user is looked up); with rejected credentials it returns
\* the credentials error and leaves r - 1, so RlQuota consecutive rejected
\* calls from a full counter are each evaluated.  A call that finds nothing
\* left returns the rate-limit error without looking up the user or
\* comparing the password, whatever the credentials, and leaves nothing.
\* The quota of an ip rises only when its window has expired, when the
\* cleanup refills it or when a lookup from that ip succeeds.
\* (Every lookup moves the counter of its ip: RlQuota > 0.)
C8_RateLimited ==
    [][ /\ \A h \in Handlers, ip \in IPs, u \in Users, pw \in Passwords :
              (rl' # rl /\ HLookup(h, ip, u, pw)) =>
                  LET res == LookupWithPassword(rl, userNameMap, peers, ip, u, pw, now)
                      r == Remaining(rl, ip, now)
                  IN  /\ r >= 1 =>
                            /\ res.looked
                            /\ res.err = IF Rejected(u, pw) THEN "CredentialsError" ELSE ""
                            /\ Rejected(u, pw) => Remaining(rl', ip, now') = r - 1
                      /\ r <= 0 =>
                            /\ res.err = "RateLimitError"
                            /\ ~res.looked /\ ~res.compared
                            /\ hs'[h].pc = "idle"
                            /\ Remaining(rl', ip, now') < 0
                      /\ \A other \in IPs \ {ip} :
                            Remaining(rl', other, now') = Remaining(rl, other, now)
        /\ \A ip \in IPs :
              Remaining(rl', ip, now') > Remaining(rl, ip, now) =>
                  \/ rl.entries[ip].has /\ rl.entries[ip].expires < now'
                  \/ \E h \in Handlers, u \in Users, pw \in Passwords :
                        HLookup(h, ip, u, pw) /\ ~Rejected(u, pw)
      ]_vars

\* the counter of ip1 is below zero (a call was refused) while the slot has
\* the peer of user u1, whose valid credentials would be refused as well
C8_Witness ==
    /\ rl.entries["ip1"].has
    /\ rl.entries["ip1"].quota < 0
    /\ rl.entries["ip1"].expires >= now
    /\ userNameMap["u1"] # Nil
    /\ LookupWithPassword(rl, userNameMap, peers, "ip1", "u1",
                          AuthPassword(peers[userNameMap["u1"]].opts.PasswordAuth),
                          now).err = "RateLimitError"

\* C7: on every SOCKS5 connection the PeerConnection is acquired and the
\* destination dialed only after, in this order, a greeting of version 5
\* listing method 2, the written selection of method 2, a sub-negotiation
\* whose LookupWithPassword returned a peer, the written status 01 00 and a
\* well-formed request; the success reply is written only after a successful
\* dial and the bridge is entered only right after that reply was written.
C7_HandshakeOrder ==
    LET l == sock.log
    IN  /\ \A i \in DOMAIN l :
              l[i].e \in {"acquire", "dial"} =>
                  \E a, b, c, d, e \in 1..(i - 1) :
                      /\ a < b /\ b < c /\ c < d /\ d < e
                      /\ l[a].e = "read" /\ l[a].what = "hello"
                      /\ l[a].detail.ver = 5 /\ 2 \in l[a].detail.methods
                      /\ l[b] = EvWrite(<<5, 2>>, TRUE)
                      /\ l[c].e = "lookup" /\ l[c].err = "" /\ l[c].peer # Nil
                      /\ l[d] = EvWrite(<<1, 0>>, TRUE)
                      /\ l[e].e = "read" /\ l[e].what = "request" /\ l[e].detail.ok
        /\ \A i \in DOMAIN l :
              (l[i].e = "write" /\ l[i].frame = <<5, 0, 0>>) =>
                  \E j \in 1..(i - 1) : l[j] = EvDial(TRUE)
        /\ \A i \in DOMAIN l :
              l[i].e = "bridge" => i > 1 /\ l[i - 1] = EvWrite(<<5, 0, 0>>, TRUE)
        /\ sock.pc = "bridge" => (l # <<>> /\ l[Len(l)].e = "bridge")

\* a client went through the whole handshake and is in the bridge
C7_Witness ==
    /\ sock.pc = "bridge"
    /\ sock.conn # Nil
    /\ \E i \in DOMAIN sock.log : sock.log[i] = EvAcquire("")
    /\ \E i \in DOMAIN sock.log : sock.log[i] = EvDial(TRUE)

\* the bind key of a service, as ServiceBindAddr derives it from its options
SvcKey(svc) == ServiceBindAddr(svc.opts.BindAddr, svc.opts.Proto).key

\* C9: after any sequence of SetServices and CloseSlots calls bindMap holds
\* one slot per bind key, that slot's own bind key is the key it is stored
\* under, and no two open listeners belong to the same bind key.
C9_OneListenerPerKey ==
    /\ \A k \in DOMAIN hub.bindMap : SvcKey(hub.svcs[hub.bindMap[k]]) = k
    /\ \A x, y \in DOMAIN hub.svcs :
          (/\ hub.svcs[x].listening
           /\ hub.svcs[y].listening
           /\ SvcKey(hub.svcs[x]) = SvcKey(hub.svcs[y])) => x = y

\* the peers of the slot: the IDs peerMap holds
MappedIDs == {k \in PeerIDs : peerMap[k] # Nil}

\* entry i of a batch as the claim words validation: a non-nil ID that no
\* earlier entry carries, PasswordAuth present, a user name that no earlier
\* entry carries
SeenValid(entries, i) ==
    /\ entries[i].ID # Nil
    /\ \A j \in 1..(i - 1) : entries[j].ID # entries[i].ID
    /\ entries[i].PasswordAuth # NoAuth
    /\ \A j \in 1..(i - 1) :
          entries[j].PasswordAuth # NoAuth =>
              AuthUser(entries[j].PasswordAuth) # AuthUser(entries[i].PasswordAuth)

RECURSIVE Passed(_, _)
\* entry i of a batch passed validation: a non-nil ID that no earlier entry
\* carries, PasswordAuth present, a user name that no earlier entry that
\* passed carries
Passed(entries, i) ==
    /\ entries[i].ID # Nil
    /\ \A j \in 1..(i - 1) : entries[j].ID # entries[i].ID
    /\ entries[i].PasswordAuth # NoAuth
    /\ \A j \in 1..(i - 1) :
          Passed(entries, j) =>
              AuthUser(entries[j].PasswordAuth) # AuthUser(entries[i].PasswordAuth)

\* peer IDs and user names are unique in the slot, and userNameMap has one
\* key per peer of peerMap with PasswordAuth set
SlotIndexed ==
    /\ \A k \in MappedIDs : peers[peerMap[k]].opts.ID = k
    /\ \A k1, k2 \in MappedIDs :
          (/\ k1 # k2
           /\ peers[peerMap[k1]].opts.PasswordAuth # NoAuth
           /\ peers[peerMap[k2]].opts.PasswordAuth # NoAuth)
          => AuthUser(peers[peerMap[k1]].opts.PasswordAuth)
                 # AuthUser(peers[peerMap[k2]].opts.PasswordAuth)
    /\ Cardinality({u \in Users : userNameMap[u] # Nil})
           = Cardinality({k \in MappedIDs : peers[peerMap[k]].opts.PasswordAuth # NoAuth})

\* C10 as stated: after SetPeers(new) peerMap has as many peers as new has
\* entries with a non-nil ID not seen earlier in the batch, PasswordAuth and
\* a user name not seen earlier in the batch; IDs and user names are unique
\* and userNameMap has one key per peer with PasswordAuth.
C10_AsStated ==
    ret.op = "SetPeers" =>
        /\ Cardinality(MappedIDs)
               = Cardinality({i \in DOMAIN ret.entries : SeenValid(ret.entries, i)})
        /\ SlotIndexed

\* C10: after SetPeers(new) peerMap has as many peers as new has entries that
\* passed validation, where a user name counts as taken only when an earlier
\* entry that passed carries it; the peers of peerMap are exactly those
\* entries, IDs and user names are unique and userNameMap has one key per
\* peer with PasswordAuth.
C10_SetPeersCount ==
    ret.op = "SetPeers" =>
        /\ Cardinality(MappedIDs)
               = Cardinality({i \in DOMAIN ret.entries : Passed(ret.entries, i)})
        /\ \A i \in DOMAIN ret.entries :
              Passed(ret.entries, i) =>
                  /\ ret.entries[i].ID \in MappedIDs
                  /\ peers[peerMap[ret.entries[i].ID]].opts = ret.entries[i]
        /\ SlotIndexed

\* a batch with an entry that carries the user name of a rejected entry was
\* reconciled into a slot whose peers held connections, and two peers are mapped
C10_Witness ==
    /\ ret.op = "SetPeers"
    /\ Cardinality(MappedIDs) > 1
    /\ \E c \in DOMAIN conns : conns[c].cancelled
    /\ \E i \in DOMAIN ret.entries :
          Passed(ret.entries, i) /\ ~SeenValid(ret.entries, i)

\* the peer objects that peerMap holds
MappedPeers == {peerMap[k] : k \in MappedIDs}

\* the user names that a peer of peerMap carries
MappedUsers ==
    {AuthUser(peers[o].opts.PasswordAuth) :
        o \in {x \in MappedPeers : peers[x].opts.PasswordAuth # NoAuth}}

C12_RemovedPeerRefuses ==
    \A o \in DOMAIN peers \ MappedPeers : peers[o].connMap = {}

\* C13: for a peer with Bandwidth.Rx > 0, after a redistribution pass every
\* live connection's bandRx lies in [min(MinRx, Rx), Rx] and the caps sum to
\* at most Rx + (Rx - Rx/10), whatever the number of connections, their
\* volumes and the time since the previous pass; the same for Tx.
BandWithin(field, total, min) ==
    total > 0 =>
        /\ \A i \in DOMAIN bw.conns :
              /\ bw.conns[i][field] >= Min(min, total)
              /\ bw.conns[i][field] <= total
        /\ SumOver(bw.conns, DOMAIN bw.conns, field)
              <= total + (total - total \div 10)
C13_BandWithinQuota ==
    bw.pass = "refresh" =>
        /\ BandWithin("bandRx", bw.Bandwidth.Rx, bw.Bandwidth.MinRx)
        /\ BandWithin("bandTx", bw.Bandwidth.Tx, bw.Bandwidth.MinTx)

\* C14: one pass over N connections sampled at most a second ago, quota
\* A > 0: with base = A / max(N, 1) and threshold = base - base/10, a
\* connection at or above the threshold gets max(base + unused/n_sat, Min),
\* unused being the sum of (base - volume) over the connections below the
\* threshold and n_sat the number at or above it; a connection below gets
\* max(base, Min).  With A = 10000, Min = 1000 and six connections, five at
\* rx=500/tx=100 and one at rx=2000/tx=1600, the hot one gets 7496 and 9496;
\* with all six at rx=500/tx=100 each gets 1666.
PassFormula(band, vol, A, min) ==
    LET cs == bw.last.conns
        N == Len(cs)
        base == A \div Max(N, 1)
        threshold == base - base \div 10
        below == {i \in DOMAIN cs : cs[i][vol] < threshold}
        n_sat == N - Cardinality(below)
        unused == Cardinality(below) * base - SumOver(cs, below, vol)
    IN  A > 0 =>
            \A i \in DOMAIN cs :
                bw.conns[i][band] = IF cs[i][vol] >= threshold
                                    THEN Max(base + unused \div n_sat, min)
                                    ELSE Max(base, min)
TestQuota == bw.Bandwidth = PeerBandwidth(10000, 10000, 1000, 1000) /\ Len(bw.last.conns) = 6
Cold(i) == bw.last.conns[i].deltaRx = 500 /\ bw.last.conns[i].deltaTx = 100
Hot(i) == bw.last.conns[i].deltaRx = 2000 /\ bw.last.conns[i].deltaTx = 1600
OneHot(h) == Hot(h) /\ \A i \in DOMAIN bw.last.conns \ {h} : Cold(i)
PassExamples ==
    TestQuota =>
        /\ \A h \in DOMAIN bw.last.conns :
              OneHot(h) => bw.conns[h].bandRx = 7496 /\ bw.conns[h].bandTx = 9496
        /\ (\A i \in DOMAIN bw.last.conns : Cold(i)) =>
              \A i \in DOMAIN bw.conns : bw.conns[i].bandRx = 1666 /\ bw.conns[i].bandTx = 1666
C14_PassFormula ==
    (bw.pass = "refresh" /\ bw.last.elapsed <= 1) =>
        /\ PassFormula("bandRx", "deltaRx", bw.Bandwidth.Rx, bw.Bandwidth.MinRx)
        /\ PassFormula("bandTx", "deltaTx", bw.Bandwidth.Tx, bw.Bandwidth.MinTx)
        /\ PassExamples
C14_Witness ==
    /\ bw.pass = "refresh" /\ bw.last.elapsed <= 1
    /\ TestQuota
    /\ \E h \in DOMAIN bw.last.conns : OneHot(h) /\ bw.conns[h].bandRx = 7496

\* C15: for a peer with no bandwidth caps (Rx = Tx = MinRx = MinTx = 0) every
\* connection's bandRx and bandTx are 0 (unlimited) when it is acquired and
\* after every redistribution pass, whatever the number of connections and
\* the traffic they carried.
C15_NoCapsUnlimited ==
    bw.Bandwidth = PeerBandwidth(0, 0, 0, 0) =>
        \A i \in DOMAIN bw.conns : bw.conns[i].bandRx = 0 /\ bw.conns[i].bandTx = 0
C15_Witness ==
    /\ bw.Bandwidth = PeerBandwidth(0, 0, 0, 0)
    /\ bw.pass = "refresh"
    /\ Len(bw.conns) > 2
    /\ bw.last.elapsed > 1
    /\ \E i, j \in DOMAIN bw.last.conns :
          /\ bw.last.conns[i].deltaRx > 0 /\ bw.last.conns[i].sampled
          /\ bw.last.conns[j].deltaRx = 0 /\ ~bw.last.conns[j].sampled

\* C16: a successful authentication does not consume quota.  A
\* LookupWithPassword call that returns a peer leaves the counter of the
\* caller's ip at the full quota; a call with valid credentials that finds
\* the counter full (as every success leaves it) is never refused, so
\* successes alone never meet the rate-limit error; and from the full counter
\* a success leaves, each rejected call that finds r >= 1 is evaluated and
\* takes one, so RlQuota rejected calls are evaluated before the first
\* refusal.
C16_SuccessKeepsQuota ==
    [][ \A h \in Handlers, ip \in IPs, u \in Users, pw \in Passwords :
           (now' = now /\ peers' = peers /\ HLookup(h, ip, u, pw)) =>
               LET res == LookupWithPassword(rl, userNameMap, peers, ip, u, pw, now)
                   r == Remaining(rl, ip, now)
               IN  /\ res.err = "" =>
                         /\ rl'.entries[ip].has
                         /\ rl'.entries[ip].quota = RlQuota
                         /\ Remaining(rl', ip, now') = RlQuota
                   /\ (r = RlQuota /\ ~Rejected(u, pw)) => res.err = ""
                   /\ (r >= 1 /\ Rejected(u, pw)) =>
                         /\ res.err = "CredentialsError"
                         /\ res.looked
                         /\ Remaining(rl', ip, now') = r - 1
      ]_vars

\* a handler holds the peer a lookup returned while the counter of the ip it
\* came from is full, and the other ip has used up its quota
C16_Witness ==
    \E h \in Handlers, ip \in IPs :
        /\ hs[h].pc = "authed"
        /\ rl.entries[ip].has
        /\ rl.entries[ip].quota = RlQuota
        /\ rl.entries[ip].expires = now + RlWindow
        /\ \E other \in IPs \ {ip} : Remaining(rl, other, now) <= 0

\* the entry differs from the stored options of peer object o in the framed
\* ip, with the same credentials and the same Disabled flag
FramedOnly(o, entry) ==
    /\ entry.FramedIP # peers[o].opts.FramedIP
    /\ CmpCredentials(peers[o].opts, entry)
    /\ entry.Disabled = peers[o].opts.Disabled

\* the bytes peer object o has accumulated, on itself and on its connections
Accumulated(o) ==
    peers[o].DeltaRx + peers[o].DeltaTx
        + SumOver(conns, peers[o].connMap, "deltaRx") + SumOver(conns, peers[o].connMap, "deltaTx")

\* C17: when SetPeers updates an existing peer whose FramedIP
\* differs from the stored one, with credentials and Disabled flag unchanged,
\* all of the peer's open connections are cancelled and its accumulated delta
\* is captured into the deferred deltas.
C17_FramedIPChangeCancels ==
    [][ \A b \in FramedBatches :
           (SetPeersFrom(b) /\ peerMap[1] # Nil /\ FramedOnly(peerMap[1], b[1])) =>
               /\ \A c \in peers[peerMap[1]].connMap : conns'[c].cancelled
               /\ Accumulated(peerMap[1]) > 0 => Len(oldDeltas') = Len(oldDeltas) + 1
      ]_vars

\* Proxy-Authorization values that are absent, malformed or of a scheme
\* other than Basic
UnusableAuth == {"", "Bearer dTE6cDE=", "Basic dTE6cDE", "Basic OnAx", "Basic"}

\* C18: an HTTP proxy request whose Proxy-Authorization header is absent,
\* malformed or of a scheme other than Basic is answered with status 407 and
\* the header Proxy-Authenticate: Basic; LookupWithPassword is not called and
\* nothing is acquired, dialed or forwarded.
C18_ProxyAuthRequired ==
    (web.pc = "done" /\ web.req.auth \in UnusableAuth) =>
        /\ web.status = 407
        /\ web.header.ProxyAuthenticate = "Basic"
        /\ web.log = <<>>

\* the HTTP request met the rate-limit error of LookupWithPassword
WebRateLimited ==
    /\ web.pc = "done"
    /\ web.log # <<>>
    /\ web.log[1] = EvLookup("RateLimitError", Nil)

\* over HTTP the rate-limit error is answered with 429 and a Retry-After header
HttpRateLimitSignalled ==
    WebRateLimited => (web.status = 429 /\ web.header.RetryAfter # <<>>)

\* C19: when LookupWithPassword returns the rate-limit error during the
\* SOCKS5 user/password sub-negotiation the server closes the connection
\* without writing an auth status or any other byte after the method
\* selection; over HTTP the same error is answered with status 429 and a
\* Retry-After header.
C19_RateLimitSilentOnSocks ==
    /\ \A i \in DOMAIN sock.log :
          sock.log[i] = EvLookup("RateLimitError", Nil) =>
              /\ sock.pc = "closed"
              /\ \A j \in DOMAIN sock.log : j > i => sock.log[j].e # "write"
    /\ HttpRateLimitSignalled

\* destination hosts that are loopback, private or unspecified IP literals
LocalHosts == {"127.0.0.1", "10.0.0.1", "0.0.0.0"}

\* position i of the log is a well-formed request for a local destination
\* that got past the reset of the I/O deadline
LocalRequestAt(i) ==
    /\ sock.log[i].e = "read" /\ sock.log[i].what = "request"
    /\ sock.log[i].detail.ok
    /\ sock.log[i].detail.Host \in LocalHosts
    /\ \A j \in DOMAIN sock.log : sock.log[j] # EvDeadline

\* C20: an authenticated SOCKS5 request whose destination host is a loopback,
\* private or unspecified IP literal, whatever its command, gets exactly one
\* reply, with code 0x02, and the connection ends; no PeerConnection is
\* acquired and the destination is never dialed.  (A SetDeadline error,
\* which only a closed descriptor gives, is answered with 0x01 before the
\* destination is looked at; such runs are left out.)
C20_LocalDestinationRefused ==
    \A i \in DOMAIN sock.log :
        LocalRequestAt(i) =>
            /\ sock.pc = "closed"
            /\ Len(sock.log) = i + 1
            /\ sock.log[i + 1].e = "write" /\ sock.log[i + 1].frame = <<5, 2>>
            /\ \A j \in DOMAIN sock.log : sock.log[j].e \notin {"acquire", "dial", "bridge"}
            /\ sock.conn = Nil

\* a BIND request (command 2) for a private address from the enabled peer 1
\* was refused
C20_Witness ==
    /\ sock.pc = "closed"
    /\ peerMap[1] # Nil /\ ~peers[peerMap[1]].opts.Disabled
    /\ \E i \in DOMAIN sock.log :
          /\ LocalRequestAt(i)
          /\ sock.log[i].detail.Cmd = 2
          /\ sock.log[i + 1] = EvWrite(<<5, 2>>, TRUE)

\* the lines of the last SetServices about bind key k
Said(r, msg, k) == r.op = "SetServices" /\ LogLine(msg, k) \in r.log

\* deltaList is a contiguous part of list
Within(deltaList, list) ==
    \E j \in 0..(Len(list) - Len(deltaList)) :
        SubSeq(list, j + 1, j + Len(deltaList)) = deltaList

\* the failed entries of the hub for bind key k
ErrSlotsOf(h, k) ==
    {i \in DOMAIN h.errSlots :
        ServiceBindAddr(h.errSlots[i].BindAddr, h.errSlots[i].Proto).key = k}

\* C21: a SetServices step whose entry meets, under its bind key k, a slot
\* that rejects the entry's options.  When closing the old slot fails
\* ("Close outdated slot" is logged) nothing is created for the key in this
\* pass: no slot is bound or replaced, no listen is attempted and the key
\* holds no slot other than the old one.  When closing succeeds the old
\* slot's pending deltas are appended to the hub's deferred deltas, the old
\* slot is gone from the key, and the new slot is bound after the old
\* listener was released: a replacement holds a fresh listening slot with
\* the entry's Proto, and a failed listen on the address of a slot that was
\* running is never "address already in use" because of the old slot.
C21_IncompatibleReplaced ==
    [][ \A k \in DOMAIN hub.bindMap :
          LET old == hub.svcs[hub.bindMap[k]]
              others == {x \in DOMAIN hub.svcs \ {hub.bindMap[k]} :
                            hub.svcs[x].listening /\ hub.svcs[x].sock = old.sock}
          IN  /\ Said(ret', "Close outdated slot", k) =>
                    /\ ~Said(ret', "Replace slot", k)
                    /\ ~Said(ret', "Create slot", k)
                    /\ ~Said(ret', "Unable to create slot", k)
                    /\ ErrSlotsOf(hub', k) = {}
                    /\ k \in DOMAIN hub'.bindMap =>
                          hub'.svcs[hub'.bindMap[k]].opts.Proto = old.opts.Proto
              /\ (/\ ~Said(ret', "Update slot", k)
                  /\ Said(ret', "Replace slot", k) \/ Said(ret', "Unable to create slot", k)) =>
                    /\ Within(old.deltas, hub'.oldDeltas)
                    /\ Len(hub'.oldDeltas) >= Len(hub.oldDeltas) + Len(old.deltas)
                    /\ Said(ret', "Replace slot", k) =>
                          /\ k \in DOMAIN hub'.bindMap
                          /\ hub'.svcs[hub'.bindMap[k]].listening
                          /\ ~hub'.svcs[hub'.bindMap[k]].cancelled
                          /\ hub'.svcs[hub'.bindMap[k]].opts.Proto # old.opts.Proto
                          /\ hub'.svcs[hub'.bindMap[k]].deltas = <<>>
                    /\ (Said(ret', "Unable to create slot", k) /\ ~old.cancelled
                            /\ old.sock.port # 0 /\ others = {}) =>
                          /\ k \notin DOMAIN hub'.bindMap
                          /\ \A i \in ErrSlotsOf(hub', k) :
                                hub'.errSlots[i].Error = "listen error"
      ]_vars

\* the SOCKS5 slot of 1.1.1.1:80 had unreported traffic and was replaced by
\* an HTTP slot: its deltas wait in the hub
C21_Witness ==
    /\ Said(ret, "Replace slot", <<"1.1.1.1", 80, "/tcp">>)
    /\ hub.oldDeltas # <<>>
    /\ hub.svcs[hub.bindMap[<<"1.1.1.1", 80, "/tcp">>]].opts.Proto = "http"
    /\ hub.svcs[hub.bindMap[<<"1.1.1.1", 80, "/tcp">>]].deltas = <<>>

\* no entry of the last SetServices reached bind key k
Unvisited(r, k) ==
    \A msg \in {"Update slot", "Replace slot", "Create slot", "Unable to create slot",
                "Close outdated slot"} : ~Said(r, msg, k)

\* delta entries held by the slots of bindMap
BoundPending == Len(SlotDeltaList(hub.svcs, CHOOSE q \in MapOrders(hub.bindMap) : TRUE))

\* C22: slots whose bind key the new configuration does not name.  In a
\* SetServices step every such key of bindMap has its slot closed once, and
\* the slot's pending deltas are appended to the hub's deferred deltas.  If
\* the close returns no error the key is gone from bindMap, and a slot that
\* was running before the call listens no more; if it returns an error the
\* same slot stays under the key (so the next pass closes it again).
\* Deferred deltas stay in the hub, in order, until ServiceHub.Deltas, which
\* returns all of them ahead of the deltas of the slots in bindMap and
\* leaves none behind.
C22_UnvisitedClosed ==
    [][ /\ \A k \in DOMAIN hub.bindMap :
              LET old == hub.svcs[hub.bindMap[k]]
              IN  (ret'.op = "SetServices" /\ Unvisited(ret', k)) =>
                      /\ Said(ret', "Remove slot", k) # Said(ret', "Slot failed to terminate", k)
                      /\ Within(old.deltas, hub'.oldDeltas)
                      /\ Len(hub'.oldDeltas) >= Len(hub.oldDeltas) + Len(old.deltas)
                      /\ Said(ret', "Remove slot", k) =>
                            /\ k \notin DOMAIN hub'.bindMap
                            /\ ~old.cancelled =>
                                  \A x \in DOMAIN hub'.svcs :
                                      ~(hub'.svcs[x].listening /\ hub'.svcs[x].sock = old.sock)
                      /\ Said(ret', "Slot failed to terminate", k) =>
                            /\ k \in DOMAIN hub'.bindMap
                            /\ hub'.svcs[hub'.bindMap[k]].opts = old.opts
                            /\ hub'.svcs[hub'.bindMap[k]].sock = old.sock
                            /\ hub'.svcs[hub'.bindMap[k]].cancelled
                            /\ hub'.svcs[hub'.bindMap[k]].deltas = <<>>
        /\ ret'.op # "HubDeltas" =>
              /\ Len(hub'.oldDeltas) >= Len(hub.oldDeltas)
              /\ SubSeq(hub'.oldDeltas, 1, Len(hub.oldDeltas)) = hub.oldDeltas
        /\ ret'.op = "HubDeltas" =>
              /\ hub'.oldDeltas = <<>>
              /\ SubSeq(ret'.out, 1, Len(hub.oldDeltas)) = hub.oldDeltas
              /\ Len(ret'.out) = Len(hub.oldDeltas) + BoundPending
      ]_vars

\* the slot of 1.1.1.1:80 had unreported traffic when a configuration
\* without its key came: it was removed and its deltas wait in the hub
C22_Witness ==
    /\ ret.op = "SetServices"
    /\ Unvisited(ret, <<"1.1.1.1", 80, "/tcp">>)
    /\ Said(ret, "Remove slot", <<"1.1.1.1", 80, "/tcp">>)
    /\ <<"1.1.1.1", 80, "/tcp">> \notin DOMAIN hub.bindMap
    /\ hub.oldDeltas # <<>>
    /\ \A x \in DOMAIN hub.svcs : hub.svcs[x].deltas = <<>>

\* the bind key of the entries of SpecUpdate
UpdateKey == <<"1.1.1.1", 80, "/tcp">>

\* the step is a SetServices that found a slot under UpdateKey and updated it
UpdateStep == UpdateKey \in DOMAIN hub.bindMap /\ Said(ret', "Update slot", UpdateKey)

\* the hub's side of an update in place: the slot object under the key is
\* the one that was there, with its listener, context and deltas untouched
\* and the entry's options (its ID included) stored; nothing was closed,
\* bound or recorded as failed
SlotKeptInPlace ==
    /\ UpdateKey \in DOMAIN hub'.bindMap
    /\ hub'.svcs = [hub.svcs EXCEPT ![hub.bindMap[UpdateKey]].opts = ret'.entry]
    /\ hub'.bindMap = hub.bindMap
    /\ hub'.svcs[hub'.bindMap[UpdateKey]].listening
    /\ ~hub'.svcs[hub'.bindMap[UpdateKey]].cancelled
    /\ hub'.svcs[hub'.bindMap[UpdateKey]].opts.ID = ret'.entry.ID
    /\ hub'.errSlots = <<>>
    /\ ret'.log = {LogLine("Update slot", UpdateKey)}

\* the slot's side: SetPeers(entry.Peers) ran on the slot
PeersApplied ==
    LET sp == SetPeersResult(ret'.entries)
    IN  /\ peerMap' = sp.new
        /\ userNameMap' = RemapUserNames(sp)
        /\ \A k \in PeerIDs :
              peerMap'[k] # Nil =>
                  \E i \in DOMAIN ret'.entries : peers'[peerMap'[k]].opts = ret'.entries[i]

\* connection c is open and belongs to a peer of the slot that the entries
\* import again with the same credentials, FramedIP and Disabled flag
PeerUnchanged(c, entries) ==
    /\ ~conns[c].cancelled
    /\ peerMap[peers[conns[c].peer].opts.ID] = conns[c].peer
    /\ \E i \in DOMAIN entries :
          /\ CmpCredentials(peers[conns[c].peer].opts, entries[i])
          /\ entries[i].FramedIP = peers[conns[c].peer].opts.FramedIP
          /\ entries[i].Disabled = peers[conns[c].peer].opts.Disabled

\* C23 as stated: a SetServices entry whose bind key holds a running slot of
\* the same Proto and BindAddr updates that slot in place (same object and
\* listener, no Close, no new bind, the entry's ID stored, SetPeers applied),
\* and every open connection of a peer whose credentials, FramedIP and
\* Disabled flag did not change stays open.
C23_UpdatedInPlace ==
    [][ UpdateStep =>
            /\ SlotKeptInPlace
            /\ PeersApplied
            /\ \A c \in DOMAIN conns :
                  PeerUnchanged(c, ret'.entries) => ~conns'[c].cancelled
      ]_vars

\* the hub holds a failed-slot record for entry: Up = false, an error text
Reported(h, entry) ==
    \E j \in DOMAIN h.errSlots :
        /\ h.errSlots[j].ID = entry.ID
        /\ h.errSlots[j].Proto = entry.Proto
        /\ h.errSlots[j].BindAddr = entry.BindAddr
        /\ ~h.errSlots[j].Up
        /\ h.errSlots[j].Error # ""

\* C24: after SetServices every entry of the batch that was rejected as a
\* configuration error (nil or repeated ID, invalid Proto, bind address that
\* is not a literal ip:port) and every entry whose listener could not be
\* bound has a record with Up = false and an error text in the hub's list of
\* failed slots; that list is what the next SlotInfo() returns first, and
\* SlotInfo() hands it out once.
C24_RejectedReported ==
    [][ /\ ret'.op = "SetServices" =>
              /\ \A i \in DOMAIN ret'.skipped : Reported(hub', ret'.skipped[i])
              /\ \A k \in {l.key : l \in {x \in ret'.log : x.msg = "Unable to create slot"}} :
                    ErrSlotsOf(hub', k) # {}
        /\ ret'.op = "SlotInfo" =>
              /\ SubSeq(ret'.out, 1, Len(hub.errSlots)) = hub.errSlots
              /\ \A i \in (Len(hub.errSlots) + 1)..Len(ret'.out) : ret'.out[i].Up
              /\ hub'.errSlots = <<>>
      ]_vars

\* position i of the log is the greeting 05 01 02
PasswordGreetingAt(i) ==
    /\ sock.log[i].e = "read" /\ sock.log[i].what = "hello"
    /\ sock.log[i].detail = [ver |-> 5, methods |-> {2}]

\* position i of the log is a user/password sub-negotiation
SubNegotiationAt(i) == sock.log[i].e = "read" /\ sock.log[i].what = "auth"

\* the connection ended with position i of the log: nothing was read after it
EndsAt(i) == sock.pc = "closed" /\ Len(sock.log) = i

\* after position i the handler reads the request and nothing else
RequestNextAt(i) ==
    IF Len(sock.log) = i THEN sock.pc = "request"
    ELSE sock.log[i + 1].e = "read" /\ sock.log[i + 1].what = "request"

\* C25: to the greeting 05 01 02 the server replies 05 02; to the
\* sub-negotiation that follows it replies 01 00 when the credentials are
\* accepted and then reads the request, and it replies 01 01 and closes the
\* connection without reading a request when the credentials are rejected,
\* when the sub-negotiation version is not 0x01 or when the user name is
\* empty.
C25_PasswordHandshake ==
    \A i \in DOMAIN sock.log :
        /\ PasswordGreetingAt(i) =>
              sock.log[i + 1].e = "write" /\ sock.log[i + 1].frame = <<5, 2>>
        /\ SubNegotiationAt(i) =>
              IF sock.log[i].detail.ver # 1 \/ sock.log[i].detail.user = ""
              THEN /\ sock.log[i + 1].e = "write" /\ sock.log[i + 1].frame = <<1, 1>>
                   /\ EndsAt(i + 1)
              ELSE /\ sock.log[i + 1].e = "lookup"
                   /\ sock.log[i + 2].e = "write"
                   /\ IF sock.log[i + 1].err # ""
                      THEN sock.log[i + 2].frame = <<1, 1>> /\ EndsAt(i + 2)
                      ELSE /\ sock.log[i + 2].frame = <<1, 0>>
                           /\ IF sock.log[i + 2].ok THEN RequestNextAt(i + 2)
                              ELSE EndsAt(i + 2)

\* the greeting 05 01 02 got 05 02, the credentials u1/p1 got 01 00 and a
\* request was read
C25_Witness ==
    /\ Len(sock.log) >= 6
    /\ PasswordGreetingAt(1)
    /\ sock.log[2] = EvWrite(<<5, 2>>, TRUE)
    /\ SubNegotiationAt(3) /\ sock.log[3].detail = [ver |-> 1, user |-> "u1"]
    /\ sock.log[5] = EvWrite(<<1, 0>>, TRUE)
    /\ sock.log[6].e = "read" /\ sock.log[6].what = "request"

\* the method list m of a greeting does not hold the password method 0x02
LacksPasswordMethod(m) == m # <<>> /\ \A i \in DOMAIN m : m[i] # 2

\* the served connection ended after one read and the reply frame
RefusedWith(s, frame, wok) ==
    /\ s.pc = "closed"
    /\ Len(s.log) = 2
    /\ s.log[1].e = "read" /\ s.log[1].what = "hello"
    /\ s.log[2] = EvWrite(frame, wok)

\* C26: a greeting of version 5 whose non-empty method list does not hold
\* 0x02 is answered with 05 ff and the connection is closed;
\* LookupWithPassword is not called, the rate limiter is left as it was and
\* no request is read.  A greeting of another version, or with zero
\* methods, is answered with the generic error 05 01 and the connection is
\* closed.
C26_NoPasswordMethod ==
    [][ \A ver \in Versions, m \in Greetings, wok \in BOOLEAN :
            ServeHello(ver, m, wok) =>
                /\ (ver = 5 /\ LacksPasswordMethod(m)) =>
                       /\ RefusedWith(sock', <<5, 255>>, wok)
                       /\ rl' = rl
                       /\ sock'.peer = Nil
                /\ (ver # 5 \/ m = <<>>) =>
                       /\ RefusedWith(sock', <<5, 1>>, wok)
                       /\ rl' = rl
      ]_vars

\* the rate limiter has counted a lookup and the greeting of a later
\* connection, offering method 0x00 only, was answered with 05 ff
C26_Witness ==
    /\ rl.entries["ip1"] # NoCounter
    /\ sock.pc = "closed"
    /\ Len(sock.log) = 2
    /\ sock.log[1] = EvRead("hello", [ver |-> 5, methods |-> {0}])
    /\ sock.log[2] = EvWrite(<<5, 255>>, TRUE)

\* the reply frames written after the request read at position i of log l
RepliesAfter(l, i) == {j \in DOMAIN l : j > i /\ l[j].e = "write"}

\* every request read on connection s got at most one reply frame, and one
\* when the handler is through with it
OneReplyPerRequest(s) ==
    \A i \in DOMAIN s.log :
        (s.log[i].e = "read" /\ s.log[i].what = "request") =>
            /\ Cardinality(RepliesAfter(s.log, i)) <= 1
            /\ s.pc \in {"closed", "bridge"} => Cardinality(RepliesAfter(s.log, i)) = 1

\* the events the step added to the log of the served connection
Added == SubSeq(sock'.log, Len(sock.log) + 1, Len(sock'.log))

\* C27: an authenticated, well-formed request to a non-local destination for
\* an enabled peer: BIND and UDP ASSOCIATE are answered with 0x07 and acquire
\* no PeerConnection; for CONNECT a failed acquisition is answered with 0x02
\* when the error is ErrTooManyConnections and with 0x01 otherwise, a failed
\* dial with 0x04, a successful dial with 0x00 followed by the bridge; one
\* reply frame is written per request.
C27_RequestOutcome ==
    [][ /\ \A ver \in Versions, cmd \in Commands, rsv \in {0, 1}, atyp \in {1, 2},
              host \in Hosts \ LocalHosts, wok \in BOOLEAN :
              (/\ ServeRequest(ver, cmd, rsv, atyp, host, TRUE, wok)
               /\ ReadRequest(ver, cmd, rsv, atyp, host).ok
               /\ ~peers[sock.peer].opts.Disabled) =>
                  IF cmd = 1
                  THEN sock'.pc = "connect" /\ Len(Added) = 1
                  ELSE /\ sock'.pc = "closed"
                       /\ Len(Added) = 2 /\ Added[2] = EvWrite(<<5, 7>>, wok)
                       /\ conns' = conns /\ peers' = peers
        /\ (sock.pc = "connect" /\ sock' # sock) =>
              /\ Added[1].e = "acquire"
              /\ IF Added[1].err = ""
                 THEN sock'.pc = "dial" /\ Len(Added) = 1 /\ sock'.conn # Nil
                 ELSE /\ sock'.pc = "closed" /\ conns' = conns
                      /\ Len(Added) = 2 /\ Added[2].e = "write"
                      /\ Added[2].frame =
                            IF Added[1].err = "ErrTooManyConnections"
                            THEN <<5, 2, 0>> ELSE <<5, 1, 0>>
        /\ (sock.pc = "dial" /\ sock' # sock) =>
              /\ Added[1].e = "dial"
              /\ IF Added[1].ok
                 THEN sock'.pc = "reply" /\ Len(Added) = 1
                 ELSE /\ sock'.pc = "closed"
                      /\ Len(Added) = 2 /\ Added[2].e = "write"
                      /\ Added[2].frame = <<5, 4, 0>>
        /\ (sock.pc = "reply" /\ sock' # sock) =>
              /\ Added[1].e = "write" /\ Added[1].frame = <<5, 0, 0>>
              /\ IF Added[1].ok
                 THEN sock'.pc = "bridge" /\ Added = <<Added[1], EvBridge>>
                 ELSE sock'.pc = "closed" /\ Len(Added) = 1
        /\ OneReplyPerRequest(sock')
      ]_vars

\* a CONNECT of the enabled peer 1 to a public address was refused for
\* ErrTooManyConnections with 0x02
C27_Witness ==
    /\ sock.pc = "closed"
    /\ peerMap[1] # Nil /\ ~peers[peerMap[1]].opts.Disabled
    /\ \E i \in DOMAIN sock.log :
          /\ sock.log[i].e = "read" /\ sock.log[i].what = "request"
          /\ sock.log[i].detail = [ok |-> TRUE, Cmd |-> 1, Host |-> "1.2.3.4"]
          /\ Len(sock.log) = i + 2
          /\ sock.log[i + 1] = EvAcquire("ErrTooManyConnections")
          /\ sock.log[i + 2] = EvWrite(<<5, 2, 0>>, TRUE)

\* the request did nothing but the lookup: no PeerConnection, no dial, no
\* forwarded request, no bridge
OnlyLookedUp(w) ==
    /\ w.pc = "done"
    /\ w.conn = Nil
    /\ Len(w.log) = 1 /\ w.log[1].e = "lookup"

\* the slot holds a peer with this user name and this password
CredentialsHeld(user, password) ==
    /\ userNameMap[user] # Nil
    /\ peers[userNameMap[user]].opts.PasswordAuth = UserPassword(user, password)

WebAdded == SubSeq(web'.log, Len(web.log) + 1, Len(web'.log))

\* C29: HTTP CONNECT for an authorised request: a failed PeerConnection
\* acquisition yields 429 for ErrTooManyConnections and 500 otherwise, a
\* failed dial yields 502, 200 is written and the bridge entered only after
\* a successful dial, and the bytes the client pipelined after the CONNECT
\* request are written to the destination and accounted as tx before the
\* bridge starts.
C29_ConnectOutcome ==
    [][ /\ (web.pc = "connect" /\ web' # web) =>
              /\ WebAdded[1].e = "acquire"
              /\ IF WebAdded[1].err = ""
                 THEN web'.pc = "dial" /\ web'.status = 0 /\ web'.conn # Nil
                 ELSE /\ web'.pc = "done" /\ conns' = conns
                      /\ web'.status =
                            IF WebAdded[1].err = "ErrTooManyConnections" THEN 429 ELSE 500
        /\ (web.pc = "dial" /\ web' # web) =>
              /\ WebAdded[1].e = "dial"
              /\ IF WebAdded[1].ok
                 THEN web'.pc = "hijack" /\ web'.status = 0
                 ELSE web'.pc = "done" /\ web'.status = 502
        /\ (web'.pc # "idle" /\ web'.req.method = "CONNECT" /\ web'.status = 200) =>
              \E i \in DOMAIN web'.log : web'.log[i] = EvDial(TRUE)
        /\ web'.pc = "bridge" =>
              /\ web'.status = 200
              /\ web'.log[Len(web'.log)] = EvBridge
        /\ \A hok \in BOOLEAN, wok \in BOOLEAN, trailLen \in TrailLens, pok \in BOOLEAN,
              dwok \in BOOLEAN :
              (HttpTunnel(hok, wok, trailLen, pok, dwok) /\ web'.pc = "bridge") =>
                  /\ conns'[web.conn].deltaTx = conns[web.conn].deltaTx + trailLen
                  /\ conns'[web.conn].deltaRx = conns[web.conn].deltaRx
                  /\ WebAdded = IF trailLen > 0 THEN <<EvFlush(trailLen), EvBridge>>
                                ELSE <<EvBridge>>
      ]_vars

\* a CONNECT whose client had pipelined one byte is in the bridge and the
\* byte is on the connection's tx counter
C29_Witness ==
    /\ web.pc = "bridge"
    /\ web.status = 200
    /\ \E i \in DOMAIN web.log : web.log[i] = EvFlush(1)
    /\ conns[web.conn].deltaTx = 1

\* the goroutines of the bridge that have not finished
RunningTasks == {d \in Directions : bridge.task[d].pc # "exited"}

\* C30: ProxyBridge returns only after both copy directions have ended: in
\* no state has ProxyBridge returned while a SpliceConn task it started is
\* still running, and no task sends on the result channel after the channel
\* was closed.
C30_BridgeJoined ==
    /\ bridge.main = "returned" => RunningTasks = {}
    /\ bridge.closed => \A d \in Directions : bridge.task[d].pc \notin {"copy", "send"}
    /\ ~bridge.panicked

\* ProxyBridge returned the error of one direction after the other
\* direction's result was left in the channel
C30_Witness ==
    /\ bridge.main = "returned"
    /\ bridge.closed
    /\ bridge.err = "err"
    /\ Len(bridge.doneCh) = 1
    /\ RunningTasks = {}

\* what the SOCKS5 client sees of a served connection: the frames written to
\* it, in order, and whether the connection was closed
SocksClientView(s) ==
    [frames |-> SelectSeq(s.log, LAMBDA ev : ev.e = "write"), closed |-> s.pc = "closed"]

\* what the HTTP client sees of a request: the status and the headers
HttpClientView(w) == [status |-> w.status, header |-> w.header]

\* user names the slot knows with a password to compare against
KnownUsers == {u \in Users : IF userNameMap[u] = Nil THEN FALSE
                             ELSE peers[userNameMap[u]].opts.PasswordAuth # NoAuth}

\* passwords that are not the one of the known user u
WrongPasswords(u) == Passwords \ {AuthPassword(peers[userNameMap[u]].opts.PasswordAuth)}

\* user names the slot does not know
UnknownUsers == {u \in Users : userNameMap[u] = Nil}

\* the Proxy-Authorization header for a user name and a password
BasicHeader(u, pw) ==
    CHOOSE a \in UserHeaders :
        ProxyRequestCredentials(a) = [ok |-> TRUE, user |-> u, password |-> pw]

\* C31: from one state of the slot and of the rate limiter, a sub-negotiation
\* (or a request) with an unknown user name and one with a known user name
\* and a wrong password show the client the same: over SOCKS5 the status
\* 01 01 and the close, over HTTP status 403 and the same headers (the
\* answer to a rate-limited address when the quota is used up), and they
\* leave the rate limiter in the same state; the error LookupWithPassword
\* returns tells the two apart.
C31_RejectionsLookAlike ==
    \A k \in KnownUsers, u \in UnknownUsers :
        \A wrong \in WrongPasswords(k), pw \in Passwords :
            LET lkK == LookupWithPassword(rl, userNameMap, peers, "ip1", k, wrong, now)
                lkU == LookupWithPassword(rl, userNameMap, peers, "ip1", u, pw, now)
            IN  /\ lkK.err = lkU.err /\ lkK.err # ""
                /\ lkK.err = "CredentialsError" => ErrorText(lkK) # ErrorText(lkU)
                /\ sock.pc = "auth" =>
                      \A wok \in BOOLEAN :
                          LET a == ServeAuthResult(1, k, wrong, wok)
                              b == ServeAuthResult(1, u, pw, wok)
                          IN  /\ SocksClientView(a.sock) = SocksClientView(b.sock)
                              /\ a.rl = b.rl
                              /\ lkK.err = "CredentialsError" =>
                                    /\ a.sock.pc = "closed"
                                    /\ a.sock.log[Len(a.sock.log)] = EvWrite(<<1, 1>>, wok)
                /\ web.pc \in {"idle", "done"} =>
                      \A host \in Hosts, m \in Methods :
                          LET a == HttpServeResult(BasicHeader(k, wrong), m, host)
                              b == HttpServeResult(BasicHeader(u, pw), m, host)
                          IN  /\ HttpClientView(a.web) = HttpClientView(b.web)
                              /\ a.rl = b.rl
                              /\ lkK.err = "CredentialsError" => a.web.status = 403

\* with u1 known and the quota not used up, a sub-negotiation of the unknown
\* u2 was answered with 01 01 and a request of u1 with a wrong password with
\* 403
C31_Witness ==
    /\ KnownUsers = {"u1"}
    /\ Remaining(rl, "ip1", now) > 0
    /\ sock.pc = "closed"
    /\ Len(sock.log) = 5
    /\ sock.log[3] = EvRead("auth", [ver |-> 1, user |-> "u2"])
    /\ sock.log[4] = EvLookup("CredentialsError", Nil)
    /\ sock.log[5] = EvWrite(<<1, 1>>, TRUE)
    /\ web.pc = "done" /\ web.req.auth = "Basic dTE6cDI=" /\ web.status = 403

\* the number of dots in a string
DotCount(val) == Cardinality({i \in DOMAIN val : val[i] = DotChar})

\* C32: for every token with a 16-byte ID and a secret key,
\* ParseServerToken(t.String()) succeeds and gives the same ID and the same
\* key bytes; ParseServerToken rejects every string that does not hold
\* exactly one '.'.
C32_TokenRoundTrip ==
    /\ ret.op = "TokenRoundTrip" =>
          /\ ret.out.ok
          /\ ret.out.ID = ret.token.ID
          /\ ret.out.SecretKey = ret.token.SecretKey
    /\ ret.op = "ParseServerToken" =>
          (DotCount(ret.val) # 1 => ~ret.out.ok)

\* a token whose key is not a whole number of base64 groups came back from
\* its string
C32_Witness ==
    /\ ret.op = "TokenRoundTrip"
    /\ Len(ret.token.SecretKey) = MaxKeyLen
    /\ ret.token.ID[1] # ret.token.ID[2]
    /\ DotCount(ret.val) = 1
    /\ ret.out.ok

\* peer object o holds a connection whose context is not cancelled
HasLiveConn(o) ==
    /\ o \in DOMAIN peers
    /\ \E c \in peers[o].connMap : ~conns[c].cancelled

\* the redistributor of peer object o is running and not on its way out
RedistributorRunning(o) ==
    /\ o \in DOMAIN peers
    /\ peers[o].refreshActive
    /\ refresh[o].pc \in {"wait", "slurp"}

\* C33: under every interleaving of Connection() with a redistributor that
\* is leaving, a peer that has a live connection eventually has a running
\* redistributor (or the connection has ended meanwhile), without a further
\* Connection() call.
C33_RedistributorRestarts ==
    \A o \in 1..MaxObjs :
        [](HasLiveConn(o) => <>(RedistributorRunning(o) \/ ~HasLiveConn(o)))

\* SpliceConn of direction d has returned
SpliceEnded(d) == bridge.task[d].pc \in {"send", "done", "exited"}

\* C34: once a copy direction of a bridge has ended, with EOF or with an
\* error, or the connection's context is cancelled, ProxyBridge returns in
\* the end, whatever the other direction is doing at that moment (waiting in
\* a read, waiting in a write, sleeping in the pacer), the streams honouring
\* their read deadlines.
C34_BridgeReturns ==
    (/\ bridge.main \in {"select", "cancel", "wait"}
     /\ (bridge.ctxDone \/ \E d \in Directions : SpliceEnded(d)))
        ~> (bridge.main = "returned")

\* C35: in each direction of a relay, whenever SpliceConn is between two
\* iterations or has returned, the sum of the values it passed to the
\* accounting callback is the number of bytes the destination stream
\* accepted, in the rate-limited and in the unlimited mode, a short or failed
\* write and bytes read but never written included; a write that accepts
\* fewer bytes than it was given ends the direction with an error; and a
\* rate-limited iteration writes at most the bandwidth it sampled.
C35_WrittenAccounted ==
    [][\A d \in Directions :
          /\ bridge'.task[d].pc \in {"copy", "send", "done", "exited"}
                => bridge'.splice[d].acct = bridge'.splice[d].out
          /\ bridge'.splice[d].bandwidth > 0
                => bridge'.splice[d].acct = bridge'.splice[d].out
          /\ \A w \in 0..SrcBytes, e \in WriteErrs :
                WriteReturns(d, w, e) =>
                   /\ bridge'.splice[d].out = bridge.splice[d].out + w
                   /\ w < bridge.splice[d].read
                         => bridge'.task[d] = [pc |-> "send", val |-> "err"]
                   /\ bridge.splice[d].bandwidth > 0 => w <= bridge.splice[d].bandwidth]_vars

\* a direction ended with an error after a write took one of the two bytes
\* read, and one byte was accounted
C35_Witness ==
    \E d \in Directions :
        /\ bridge.task[d] = [pc |-> "send", val |-> "err"]
        /\ bridge.splice[d].src = 0
        /\ bridge.splice[d].out = 1
        /\ bridge.splice[d].acct = 1

\* C36: a key of the rate limiter that is no longer requested is deleted
\* from the entry map in the end, whether or not another key is requested
\* afterwards: once the requests have stopped, the map empties and stays
\* empty.
C36_IdleKeysDeleted ==
    \A ip \in IPs : <>[](~rl.entries[ip].has)

\* C37: once ServiceHub.SetDns has installed a resolver, every destination
\* dial that starts afterwards goes through it, for a peer created after the
\* change and for a peer that existed before it: a dial uses the resolver
\* hub.dns holds when the dial starts.
C37_DialUsesCurrentResolver ==
    [][\A id \in PeerIDs : PeerDial(id) => daemon'.dial.resolver = daemon.dns]_vars

\* C38: the deltas drained from the hub for a status push that fails stay in
\* the driver's queue and go out again with the next push, so that, for any
\* sequence of failed and successful pushes, every delta drained from the
\* hub is in exactly one successful push: the accepted pushes, the queue and
\* the push under way make up, in order, what was drained, and after every
\* accepted push the accepted pushes alone do.
C38_DrainedPushedOnce ==
    [][/\ daemon'.pushed \o daemon'.queue \o daemon'.fresh = daemon'.drained
       /\ StatusPost(FALSE) => daemon'.queue = daemon.queue \o daemon.fresh
       /\ StatusPost(TRUE) => /\ daemon'.pushed = daemon'.drained
                              /\ daemon'.queue = <<>>]_vars

\* a push the backend accepted that carried deltas kept from a failed push
\* together with new ones
C38_Witness ==
    /\ ret.op = "PostStatus"
    /\ ret.ok
    /\ ret.queued > 0
    /\ Len(ret.Deltas) > ret.queued
    /\ daemon.pushed = daemon.drained

\* C39: when the node stops after an exit signal, every delta CloseSlots
\* captured from the closing slots has gone into the final status push,
\* however that push and CloseSlots interleave: the hub holds no deferred
\* delta.
C39_ShutdownDeltasPushed ==
    daemon.main = "stopped" => hub.oldDeltas = <<>>

\* C40: every PeerConnection a relay path acquired is released on every way
\* out of it, in the SOCKS5 CONNECT handler, the HTTP CONNECT handler and
\* the dialer of the HTTP forward mode, a failed destination dial included:
\* when no client is being served and the transport holds no connection,
\* the context of every PeerConnection ever handed out is cancelled.
C40_AcquiredReleased ==
    (sock.pc = "closed" /\ web.pc \in {"idle", "done"})
        => \A c \in DOMAIN conns : conns[c].cancelled

====
